---- MODULE Spec2Model ----
(***************************************************************************)
(* Model of the validation primitives and of the sLM21 task engines of     *)
(* zerospeech-benchmarks.                                                  *)
(*                                                                         *)
(*   validators.py   list_checker, file_list_checker, dataframe_check      *)
(*   lexical.py      LexicalTask (load_and_format, eval_by_pair, ...)      *)
(*   semantic.py     SemanticTask.eval and its helpers                     *)
(*                                                                         *)
(* Pure functions are operators; `call' holds the last call made and `ret' *)
(* what it returned.  The task engines are state machines over the score   *)
(* directory (`written') and the exception that left eval (`raised').      *)
(***************************************************************************)
EXTENDS Integers, Sequences, FiniteSets, TLC

VARIABLES call, ret, task, sets, inputs, written, raised, pc, cli, datasets, workers

vars == <<call, ret, task, sets, inputs, written, raised, pc, cli, datasets, workers>>

(***************************************************************************)
(* Bounds of the model                                                     *)
(***************************************************************************)
\* longest list of names handed to list_checker
MaxLen == 2
\* the most lines of a pairs table handed to compute_correlation
MaxPairLines == 2
\* the most invocations of the run command that a behaviour follows
MaxRuns == 2
\* the most calls of Dataset.load that a behaviour follows
MaxLoads == 3
\* the most stimuli of the gold file that a submission file leaves out
MaxDropped == 2
\* most columns of a table handed to dataframe_check
MaxCols == 2
\* most librispeech tokens of a word in the gold table the workers pool
MaxWorkerTokens == 1

(***************************************************************************)
(* Python values                                                           *)
(***************************************************************************)
\* Optional[T]: None, or a value
None == [isNone |-> TRUE, value |-> <<>>]
Some(v) == [isNone |-> FALSE, value |-> v]

SeqsUpTo(S, n) == UNION {[1..k -> S] : k \in 0..n}

\* set(list)
ToSet(s) == {s[i] : i \in DOMAIN s}

\* no call made yet
NoCall == [fn |-> "none"]

(***************************************************************************)
(* pandas tables.  A table is its column labels in order, its rows, and    *)
(* the name of its index; a row maps each column label, and the index, to  *)
(* a cell.  Cells are integers: strings (words, voices, file names) are    *)
(* coded as integers, NaN is a number no cell otherwise holds, and a mean  *)
(* is a fraction in lowest terms.                                          *)
(***************************************************************************)
\* the unnamed index 0, 1, 2, ... of a table
RangeIndex == "#"
\* what a file holds: its header and its rows
FileContent(columns, rows) == [ok |-> TRUE, columns |-> columns, rows |-> rows]
\* a file no parser accepts
Malformed == [ok |-> FALSE, columns |-> <<>>, rows |-> <<>>]
\* a table: its column labels in order, its rows, its index
DataFrame(columns, rows, index) ==
    [ok |-> TRUE, columns |-> columns, rows |-> rows, index |-> index]
\* the table of a call that raised
NoFrame == DataFrame(<<>>, <<>>, RangeIndex)

\* the missing value of a column of words or of integers
NaN == -1
isnull(v) == v = NaN

RECURSIVE Flatten(_)
Flatten(ss) == IF ss = <<>> THEN <<>> ELSE Head(ss) \o Flatten(Tail(ss))

RECURSIVE SeqSum(_)
SeqSum(s) == IF s = <<>> THEN 0 ELSE Head(s) + SeqSum(Tail(s))

\* the elements of a set of integers in increasing order
RECURSIVE Sorted(_)
Sorted(S) ==
    IF S = {} THEN <<>>
    ELSE LET m == CHOOSE x \in S : \A y \in S : x <= y
         IN  <<m>> \o Sorted(S \ {m})

Labels(df) == ToSet(df.columns)

\* the rows renumbered 0, 1, 2, ...
Renumbered(rows) ==
    [i \in DOMAIN rows |->
        [c \in (DOMAIN rows[i]) \cup {RangeIndex} |->
            IF c = RangeIndex THEN i - 1 ELSE rows[i][c]]]

\* a table as read from a file, with the default index
range_index(content) ==
    DataFrame(content.columns, Renumbered(content.rows), RangeIndex)

\* index_col=col: the column becomes the index
set_index(content, col) ==
    DataFrame(SelectSeq(content.columns, LAMBDA c : c # col), content.rows, col)

\* df[mask]: the rows that pass, with their labels
where(df, Test(_)) == [df EXCEPT !.rows = SelectSeq(df.rows, Test)]

\* df.drop(columns=cols)
drop(df, cols) ==
    LET keep == (Labels(df) \ cols) \cup {df.index}
    IN  DataFrame(SelectSeq(df.columns, LAMBDA c : c \notin cols),
                  [i \in DOMAIN df.rows |-> [c \in keep |-> df.rows[i][c]]],
                  df.index)

\* df.reset_index(): the index becomes the first column ('index' when it has
\* no name) and the rows are renumbered
reset_index(df) ==
    LET name == IF df.index = RangeIndex THEN "index" ELSE df.index
        cols == <<name>> \o df.columns
    IN  DataFrame(cols,
                  [i \in DOMAIN df.rows |->
                      [c \in ToSet(cols) \cup {RangeIndex} |->
                          IF c = RangeIndex THEN i - 1
                          ELSE IF c = name THEN df.rows[i][df.index]
                          ELSE df.rows[i][c]]],
                  RangeIndex)

\* df.rename(f, axis=1): every column label c becomes f(c)
rename(df, f(_)) ==
    LET old(n) == CHOOSE c \in Labels(df) : f(c) = n
        cols == [i \in DOMAIN df.columns |-> f(df.columns[i])]
    IN  DataFrame(cols,
                  [i \in DOMAIN df.rows |->
                      [n \in ToSet(cols) \cup {df.index} |->
                          IF n = df.index THEN df.rows[i][n] ELSE df.rows[i][old(n)]]],
                  df.index)

\* a variant of assign that leaves the rows of the words as they are
assign_non_words(df, col, src) ==
    [df EXCEPT !.rows = [i \in DOMAIN df.rows |->
        IF df.rows[i]["correct"] = 0
        THEN [df.rows[i] EXCEPT ![col] = df.rows[i][src]] ELSE df.rows[i]]]

\* df[col] = df[src]
assign(df, col, src) ==
    [df EXCEPT !.rows = [i \in DOMAIN df.rows |-> [df.rows[i] EXCEPT ![col] = df.rows[i][src]]]]

\* pd.merge(left, right, on=<the name of both indexes>, how='inner'): the
\* rows of left, in order, each with the rows of right of the same index
merge_index(left, right) ==
    DataFrame(left.columns \o right.columns,
              Flatten([i \in DOMAIN left.rows |->
                  LET l == left.rows[i]
                      matches == SelectSeq(right.rows, LAMBDA r : r[right.index] = l[left.index])
                  IN  [j \in DOMAIN matches |-> l @@ matches[j]]]),
              left.index)

\* pd.merge(left, right, left_on=..., right_on=...): inner join on the key
\* columns, all the columns of both kept, rows in the order of left
merge_on(left, right, left_on, right_on) ==
    DataFrame(left.columns \o right.columns,
              Renumbered(Flatten([i \in DOMAIN left.rows |->
                  LET l == left.rows[i]
                      matches == SelectSeq(right.rows, LAMBDA r :
                                     \A k \in DOMAIN left_on : r[right_on[k]] = l[left_on[k]])
                  IN  [j \in DOMAIN matches |-> l @@ matches[j]]])),
              RangeIndex)

\* df.iat[r, c], both counted from 0
iat(df, r, c) == df.rows[r + 1][df.columns[c + 1]]

\* fractions in lowest terms
RECURSIVE GCD(_, _)
GCD(a, b) == IF b = 0 THEN a ELSE GCD(b, a % b)
Frac(n, d) == LET g == GCD(n, d) IN [num |-> n \div g, den |-> d \div g]
\* the missing value of a column of floats
FloatNaN == [num |-> 0, den |-> 0]

(***************************************************************************)
(* validators.py                                                           *)
(***************************************************************************)
ValidationOK(msg) == [kind |-> "ValidationOK", msg |-> msg, data |-> {}]
ValidationError(msg, data) == [kind |-> "ValidationError", msg |-> msg, data |-> data]

\* a variant of list_checker that compares the lists, not the sets
list_checker_lists(given, expected) ==
    LET has_less_files == ToSet(expected) \ ToSet(given)
        has_more_files == ToSet(given) \ ToSet(expected)
    IN  IF given # expected
        THEN IF Cardinality(has_more_files) > 0
             THEN Some(<<ValidationError("more files found", has_more_files)>>)
             ELSE IF Cardinality(has_less_files) > 0
                  THEN Some(<<ValidationError("missing files", has_less_files)>>)
                  ELSE None
        ELSE Some(<<ValidationOK("expected files found")>>)

\* a variant of list_checker that looks for missing files first
list_checker_missing_first(given, expected) ==
    LET g == ToSet(given)
        e == ToSet(expected)
        has_less_files == e \ g
        has_more_files == g \ e
    IN  IF g # e
        THEN IF Cardinality(has_less_files) > 0
             THEN Some(<<ValidationError("missing files", has_less_files)>>)
             ELSE IF Cardinality(has_more_files) > 0
                  THEN Some(<<ValidationError("more files found", has_more_files)>>)
                  ELSE None
        ELSE Some(<<ValidationOK("expected files found")>>)

\* a variant of list_checker that reports the whole expected list as missing
list_checker_whole(given, expected) ==
    LET g == ToSet(given)
        e == ToSet(expected)
        has_less_files == e \ g
        has_more_files == g \ e
    IN  IF g # e
        THEN IF Cardinality(has_more_files) > 0
             THEN Some(<<ValidationError("more files found", has_more_files)>>)
             ELSE IF Cardinality(has_less_files) > 0
                  THEN Some(<<ValidationError("missing files", e)>>)
                  ELSE None
        ELSE Some(<<ValidationOK("expected files found")>>)

\* a variant of list_checker without its "missing files" branch: it falls off
\* its end when files are only missing
list_checker_more_only(given, expected) ==
    LET g == ToSet(given)
        e == ToSet(expected)
        has_more_files == g \ e
    IN  IF g # e
        THEN IF Cardinality(has_more_files) > 0
             THEN Some(<<ValidationError("more files found", has_more_files)>>)
             ELSE None
        ELSE Some(<<ValidationOK("expected files found")>>)

\* list_checker(given, expected): a function that falls off its end returns None
list_checker(given, expected) ==
    LET g == ToSet(given)
        e == ToSet(expected)
        has_less_files == e \ g
        has_more_files == g \ e
    IN  IF g # e
        THEN IF Cardinality(has_more_files) > 0
             THEN Some(<<ValidationError("more files found", has_more_files)>>)
             ELSE IF Cardinality(has_less_files) > 0
                  THEN Some(<<ValidationError("missing files", has_less_files)>>)
                  ELSE None
        ELSE Some(<<ValidationOK("expected files found")>>)

\* a path is its stem and its suffix; [f.stem for f in paths]
Stems(paths) == [i \in DOMAIN paths |-> paths[i].stem]

\* file_list_checker(item, expected)
file_list_checker(item, expected) ==
    LET file_names == Stems(item.files_list)
        expected_names == Stems(expected)
    IN  list_checker(file_names, expected_names)

\* FileTypes, and FileTypes.dataframe_types(): the tabular ones
FileTypes == {"csv", "tsv", "txt", "npy", "wav"}
dataframe_types == {"csv", "tsv", "txt"}

\* load_dataframe(item, index_col=...): the table in the file, indexed by
\* index_col when one is named; the parser's exception for a file it does not
\* accept, and for an object that is no FileItem
NoIndexCol == ""
load_dataframe(item, index_col) ==
    IF item.kind = "FileItem" /\ item.content.ok
    THEN [raised |-> "",
          df |-> IF index_col = NoIndexCol THEN range_index(item.content)
                 ELSE set_index(item.content, index_col)]
    ELSE [raised |-> "Exception", df |-> NoFrame]

\* a variant of dataframe_check that compares the columns as sets
dataframe_check_unordered(item, expected_columns) ==
    IF item.file_type \notin dataframe_types
    THEN [responses |-> <<ValidationError("file type cannot be converted into a dataframe", {item.file})>>,
          df |-> None, trace |-> <<>>]
    ELSE LET loaded == load_dataframe(item, NoIndexCol)
         IN  IF loaded.raised # ""
             THEN [responses |-> <<ValidationError(loaded.raised, {item.file})>>,
                   df |-> None, trace |-> <<"load_dataframe">>]
             ELSE LET columns == loaded.df.columns
                  IN  IF expected_columns.isNone
                         \/ ToSet(columns) # ToSet(expected_columns.value)
                      THEN [responses |-> <<ValidationError("columns are not expected", {})>>,
                            df |-> None, trace |-> <<"load_dataframe">>]
                      ELSE [responses |-> <<ValidationOK("dataframe validates tests")>>,
                            df |-> Some(loaded.df), trace |-> <<"load_dataframe">>]

\* dataframe_check(item, expected_columns): the responses, the table or None,
\* and the calls made to the loader
dataframe_check(item, expected_columns) ==
    IF item.file_type \notin dataframe_types
    THEN [responses |-> <<ValidationError("file type cannot be converted into a dataframe", {item.file})>>,
          df |-> None, trace |-> <<>>]
    ELSE LET loaded == load_dataframe(item, NoIndexCol)
         IN  IF loaded.raised # ""
             THEN [responses |-> <<ValidationError(loaded.raised, {item.file})>>,
                   df |-> None, trace |-> <<"load_dataframe">>]
             ELSE LET columns == loaded.df.columns
                  IN  \* a list never equals None
                      IF expected_columns.isNone \/ columns # expected_columns.value
                      THEN [responses |-> <<ValidationError("columns are not expected", {})>>,
                            df |-> None, trace |-> <<"load_dataframe">>]
                      ELSE [responses |-> <<ValidationOK("dataframe validates tests")>>,
                            df |-> Some(loaded.df), trace |-> <<"load_dataframe">>]

(***************************************************************************)
(* lexical.py: LexicalTask                                                 *)
(***************************************************************************)
\* result_filenames
lexical_result_filenames ==
    [dev |-> <<"score_lexical_dev_by_pair.csv", "score_lexical_dev_by_frequency.csv",
               "score_lexical_dev_by_length.csv">>,
     test |-> <<"score_lexical_test_by_pair.csv", "score_lexical_test_by_frequency.csv",
                "score_lexical_test_by_length.csv">>]

\* lambda x: 'w_' + x
w_(x) == "w_" \o x
\* lambda x: 'nw_' + x
nw_(x) == "nw_" \o x

\* the dict of the last rename of load_and_format
PairNames(c) ==
    CASE c = "w_id" -> "id"
      [] c = "w_voice" -> "voice"
      [] c = "w_frequency" -> "frequency"
      [] c = "w_word" -> "word"
      [] c = "nw_word" -> "non word"
      [] c = "w_length" -> "length"
      [] c = "w_score" -> "score word"
      [] c = "nw_score" -> "score non word"
      [] OTHER -> c

\* load_and_format(lexical_item, gold_item): one row per (voice, id) pair of a
\* word and its non word, or the exception of a load
load_and_format(lexical_item, gold_item) ==
    LET gold_loaded == load_dataframe(gold_item, "filename")
        lexical_loaded == load_dataframe(lexical_item, "filename")
    IN  IF gold_loaded.raised # "" THEN [raised |-> gold_loaded.raised, data |-> NoFrame]
        ELSE IF lexical_loaded.raised # "" THEN [raised |-> lexical_loaded.raised, data |-> NoFrame]
        ELSE
        LET gold_values == gold_loaded.df
            lexical_values == lexical_loaded.df
            merged == reset_index(merge_index(gold_values, lexical_values))
            non == where(merged, LAMBDA r : r["correct"] = 0)
            nulls == Len(SelectSeq(non.rows, LAMBDA r : isnull(r["word"])))
            phonemic == IF nulls = Len(non.rows) THEN assign(merged, "word", "phones") ELSE merged
            flat == drop(phonemic, {"phones", "filename"})
            words == rename(reset_index(where(flat, LAMBDA r : r["correct"] = 1)), w_)
            non_words == rename(reset_index(where(flat, LAMBDA r : r["correct"] = 0)), nw_)
            pairs == merge_on(words, non_words, <<"w_voice", "w_id">>, <<"nw_voice", "nw_id">>)
            kept == drop(pairs, {"w_index", "nw_index", "nw_voice", "nw_frequency",
                                 "w_correct", "nw_correct", "nw_id", "nw_length"})
        IN  [raised |-> "", data |-> rename(kept, PairNames)]

\* a variant of PairScore that gives a tie nothing
PairScore_tie_zero(word, non_word) ==
    IF word > non_word THEN Frac(1, 1) ELSE Frac(0, 1)

\* 0.5 * (word == non word) + (word > non word)
PairScore(word, non_word) ==
    IF word > non_word THEN Frac(1, 1)
    ELSE IF word = non_word THEN Frac(1, 2)
    ELSE Frac(0, 1)

\* the sum of a sequence of fractions
RECURSIVE FracSum(_)
FracSum(s) ==
    IF s = <<>> THEN Frac(0, 1)
    ELSE IF Len(s) = 1 THEN Frac(s[1].num, s[1].den)
    ELSE LET h == Len(s) \div 2
             add(a, b) == Frac(a.num * b.den + b.num * a.den, a.den * b.den)
         IN  add(FracSum(SubSeq(s, 1, h)), FracSum(SubSeq(s, h + 1, Len(s))))

\* Series.mean(): NaN for no value
mean(s) ==
    IF s = <<>> THEN FloatNaN
    ELSE LET t == FracSum(s) IN Frac(t.num, t.den * Len(s))

\* Series.std(): the square root of the sample variance, NaN below two values
std(s) ==
    IF Len(s) < 2 THEN [sqrt |-> FloatNaN]
    ELSE LET m == mean(s)
             sq == [i \in DOMAIN s |->
                      Frac((s[i].num * m.den - m.num * s[i].den) * (s[i].num * m.den - m.num * s[i].den),
                           (s[i].den * m.den) * (s[i].den * m.den))]
             t == FracSum(sq)
         IN  [sqrt |-> Frac(t.num, t.den * (Len(s) - 1))]

\* df[col] as a list
column(df, col) == [i \in DOMAIN df.rows |-> df.rows[i][col]]

\* eval_by_pair(data): one row per pair id
eval_by_pair(data) ==
    LET scored == DataFrame(data.columns \o <<"score">>,
                     [i \in DOMAIN data.rows |->
                         data.rows[i] @@ [c \in {"score"} |->
                             PairScore(data.rows[i]["score word"], data.rows[i]["score non word"])]],
                     data.index)
        dropped == drop(scored, {"score word", "score non word"})
        keys == Sorted(ToSet(column(dropped, "id")))
        \* groupby('id').apply: the group holds every column, 'id' among them
        group(k) == where(dropped, LAMBDA r : r["id"] = k)
        score == [i \in DOMAIN keys |->
                    LET x == group(keys[i])
                    IN  [word |-> iat(x, 0, 3),
                         frequency |-> iat(x, 0, 2),
                         length |-> iat(x, 0, 4),
                         score |-> mean(column(x, "score"))]
                        @@ [c \in {"non word"} |-> iat(x, 0, 5)]]
    IN  DataFrame(<<"word", "non word", "frequency", "length", "score">>,
                  Renumbered(score), RangeIndex)

\* the bins of pd.cut; the last band has no upper edge (float('inf'))
bins == <<0, 1, 5, 20, 100>>
labels == <<"oov", "1-5", "6-20", "21-100", ">100">>

\* a variant of cut whose bands are closed on the right (right=True)
cut_right(f) ==
    IF \E i \in DOMAIN bins : bins[i] < f /\ (i = Len(bins) \/ f <= bins[i + 1])
    THEN labels[CHOOSE i \in DOMAIN bins : bins[i] < f /\ (i = Len(bins) \/ f <= bins[i + 1])]
    ELSE "NaN"

\* pd.cut(f, bins, labels, right=False): the band [bins[i], bins[i+1]) of f
cut(f) ==
    IF \E i \in DOMAIN bins : bins[i] <= f /\ (i = Len(bins) \/ f < bins[i + 1])
    THEN labels[CHOOSE i \in DOMAIN bins : bins[i] <= f /\ (i = Len(bins) \/ f < bins[i + 1])]
    ELSE "NaN"

\* .agg(n='count', score='mean', std='std') of the scores of a group
agg(scores) == [n |-> Len(scores), score |-> mean(scores), std |-> std(scores)]

\* eval_by_frequency(data): one row per band, the empty ones too
eval_by_frequency(data) ==
    DataFrame(<<"frequency", "n", "score", "std">>,
              Renumbered([i \in DOMAIN labels |->
                  [frequency |-> labels[i]] @@
                  agg(column(where(data, LAMBDA r : cut(r["frequency"]) = labels[i]), "score"))]),
              RangeIndex)

\* eval_by_length(data): one row per length found
eval_by_length(data) ==
    LET keys == Sorted(ToSet(column(data, "length")) \ {NaN})
    IN  DataFrame(<<"length", "n", "score", "std">>,
                  Renumbered([i \in DOMAIN keys |->
                      [length |-> keys[i]] @@
                      agg(column(where(data, LAMBDA r : r["length"] = keys[i]), "score"))]),
                  RangeIndex)

\* run_lexical_eval(self, lexical_item, gold_item): the three tables, each
\* None when its report is off, or the exception of load_and_format
run_lexical_eval(self, lexical_item, gold_item) ==
    LET evals(by_pair) ==
            << IF self.by_pair THEN Some(drop(by_pair, {"frequency", "length"})) ELSE None,
               IF self.by_frequency THEN Some(eval_by_frequency(by_pair)) ELSE None,
               IF self.by_length THEN Some(eval_by_length(by_pair)) ELSE None >>
        run(loaded) ==
            IF loaded.raised # "" THEN [raised |-> loaded.raised, results |-> <<>>]
            ELSE [raised |-> "", results |-> evals(eval_by_pair(loaded.data))]
    IN  run(load_and_format(lexical_item, gold_item))

\* '%.4f' % x, in ten-thousandths: the nearest, a tie going to the even one
\* NaN is written as nothing
Fixed4(x) ==
    IF x = FloatNaN THEN [fixed4 |-> NaN]
    ELSE LET q == (x.num * 10000) \div x.den
             r == (x.num * 10000) % x.den
         IN  [fixed4 |-> IF 2 * r > x.den \/ (2 * r = x.den /\ q % 2 = 1) THEN q + 1 ELSE q]

\* res.to_csv(filename, index=False, float_format='%.4f'): the header and the
\* lines of the file, without the index
to_csv(res) ==
    [header |-> res.columns,
     lines |-> [i \in DOMAIN res.rows |->
                  [c \in Labels(res) |->
                      LET v == res.rows[i][c]
                      IN  IF c = "score" THEN Fixed4(v) ELSE v]]]

\* the files of a result tuple that are not None, under the names of a subset
WriteResults(score_dir, results, filenames) ==
    LET some == {i \in DOMAIN results : ~results[i].isNone}
    IN  [f \in {filenames[i] : i \in some} |->
            to_csv(results[CHOOSE i \in some : filenames[i] = f].value)]
        @@ score_dir

\* the `if 'dev' in sets:' block of LexicalTask.eval, then its `if 'test' in
\* sets:' block, each ended by the exception that leaves it
RECURSIVE LexicalTask_eval_blocks(_, _, _, _, _)
LexicalTask_eval_blocks(self, submission, dataset, names, score_dir) ==
    IF names = <<>> THEN [raised |-> "", score_dir |-> score_dir]
    ELSE IF Head(names) \notin submission.sets
    THEN LexicalTask_eval_blocks(self, submission, dataset, Tail(names), score_dir)
    ELSE LET name == Head(names)
             subset == dataset.index.subsets["lexical_" \o name]
             \* the test block hands over the subset itself, not its gold item
             gold_item == IF name = "dev" THEN subset.items.gold ELSE subset
             write(done) ==
                 IF done.raised # "" THEN [raised |-> done.raised, score_dir |-> score_dir]
                 ELSE LexicalTask_eval_blocks(self, submission, dataset, Tail(names),
                          WriteResults(score_dir, done.results, lexical_result_filenames[name]))
         IN  write(run_lexical_eval(self, submission.items["lexical_" \o name], gold_item))

\* LexicalTask.eval(self, submission, dataset): the score directory it leaves
\* and the exception that left it ("" for none)
LexicalTask_eval(self, submission, dataset, score_dir) ==
    LexicalTask_eval_blocks(self, submission, dataset, <<"dev", "test">>, score_dir)

(***************************************************************************)
(* semantic.py: SemanticTask.  Feature arrays have one dimension: an array *)
(* is its frames in time order, each frame a number, and a pooled value is *)
(* a fraction (the whole array under the pooling 'off').                   *)
(***************************************************************************)
_SciPyMetrics ==
    {"braycurtis", "canberra", "chebyshev", "cityblock", "correlation", "cosine", "dice",
     "euclidean", "hamming", "jaccard", "jensenshannon", "kulczynski1", "mahalanobis",
     "matching", "minkowski", "rogerstanimoto", "russellrao", "seuclidean",
     "sokalmichener", "sokalsneath", "sqeuclidean", "yule"}

\* a member of the enumeration SemanticMetrics: its name and its value
SemanticMetrics(k) == [name |-> k, value |-> k]
\* str(member) of an enum.Enum
str(member) == "SemanticMetrics." \o member.name

semantic_result_filenames ==
    [dev |-> <<"score_semantic_dev_pairs.csv", "score_semantic_dev_correlation.csv">>,
     test |-> <<"score_semantic_test_pairs.csv", "score_semantic_test_correlation.csv">>]

RECURSIVE SeqMax(_)
SeqMax(s) == IF Len(s) = 1 THEN s[1] ELSE LET m == SeqMax(Tail(s)) IN IF s[1] > m THEN s[1] ELSE m
RECURSIVE SeqMin(_)
SeqMin(s) == IF Len(s) = 1 THEN s[1] ELSE LET m == SeqMin(Tail(s)) IN IF s[1] < m THEN s[1] ELSE m

\* SemanticPooling.fn applied to an array
SemanticPooling_fn(pooling, x) ==
    CASE pooling = "max" -> [pooled |-> Frac(SeqMax(x), 1)]
      [] pooling = "min" -> [pooled |-> Frac(SeqMin(x), 1)]
      [] pooling = "mean" -> [pooled |-> Frac(SeqSum(x), Len(x))]
      [] pooling = "sum" -> [pooled |-> Frac(SeqSum(x), 1)]
      [] pooling = "last" -> [pooled |-> Frac(x[Len(x)], 1)]
      [] pooling = "lastlast" -> [pooled |-> Frac(x[Len(x) - 1], 1)]
      [] pooling = "off" -> [frames |-> [i \in DOMAIN x |-> Frac(x[i], 1)]]

\* the pooling of a gold row whose file the submission does not hold
NoPooling == [missing |-> TRUE]
IsPooled(p) == DOMAIN p = {"pooled"}

\* |a - b|
FracDist(a, b) ==
    LET n == a.num * b.den - b.num * a.den
    IN  Frac(IF n < 0 THEN 0 - n ELSE n, a.den * b.den)

\* scipy.spatial.distance.cdist(x, y, metric): the distances of every element
\* of x to every element of y, in rows; ValueError for a metric it does not
\* know and for what is no matrix of numbers (None, or whole arrays, among
\* the elements).  In one dimension the metrics of the model (euclidean,
\* cityblock) are the absolute difference.
cdist(x, y, metric) ==
    IF \/ metric \notin _SciPyMetrics
       \/ \E i \in DOMAIN x : ~IsPooled(x[i])
       \/ \E j \in DOMAIN y : ~IsPooled(y[j])
    THEN [raised |-> "ValueError", value |-> <<>>]
    ELSE [raised |-> "",
          value |-> [i \in DOMAIN x |-> [j \in DOMAIN y |-> FracDist(x[i].pooled, y[j].pooled)]]]

\* matrix.mean()
matrix_mean(m) == mean(Flatten(m))

\* a variant of _correlation that takes similarity whenever it has no NaN
_correlation_similarity(df) ==
    LET hasnans == \E i \in DOMAIN df.rows : isnull(df.rows[i]["similarity"])
        human == IF hasnans THEN column(df, "relatedness") ELSE column(df, "similarity")
    IN  [spearmanr100 |-> [a |-> [i \in DOMAIN human |-> [neg |-> human[i]]],
                           b |-> column(df, "score")]]

\* compute_correlation._correlation(df): 100 * spearmanr(-human, score)[0], kept
\* as the two series handed to spearmanr
_correlation(df) ==
    LET hasnans == \E i \in DOMAIN df.rows : isnull(df.rows[i]["relatedness"])
        human == IF hasnans THEN column(df, "similarity") ELSE column(df, "relatedness")
    IN  [spearmanr100 |-> [a |-> [i \in DOMAIN human |-> [neg |-> human[i]]],
                           b |-> column(df, "score")]]

\* the types and the datasets of the model, in the order of str
Lexicographic == <<"librispeech", "mturk-771", "synthetic", "wordsim-353">>
Rank(t) == CHOOSE i \in DOMAIN Lexicographic : Lexicographic[i] = t

\* the (type, dataset) groups of a table, in the order of groupby
RECURSIVE SortedPairs(_)
SortedPairs(S) ==
    IF S = {} THEN <<>>
    ELSE LET m == CHOOSE x \in S : \A y \in S :
                     \/ Rank(x[1]) < Rank(y[1])
                     \/ (x[1] = y[1] /\ Rank(x[2]) <= Rank(y[2]))
         IN  <<m>> \o SortedPairs(S \ {m})

\* compute_correlation(self, pairs): None when correlations is off
compute_correlation(self, pairs) ==
    IF ~self.correlations THEN None
    ELSE LET keys == SortedPairs({<<pairs.rows[i]["type"], pairs.rows[i]["dataset"]>> :
                                     i \in DOMAIN pairs.rows})
             group(k) == where(pairs, LAMBDA r : r["type"] = k[1] /\ r["dataset"] = k[2])
         IN  Some(DataFrame(<<"type", "dataset", "correlation">>,
                  Renumbered([i \in DOMAIN keys |->
                      [type |-> keys[i][1],
                       dataset |-> keys[i][2],
                       correlation |-> _correlation(group(keys[i]))]]),
                  RangeIndex))

\* pool[pool['filename'] == name]['pooling']: the poolings under a file name,
\* of whatever type
PoolingsOf(pool, names) ==
    column(where(pool, LAMBDA r : r["filename"] \in names), "pooling")

\* a variant of tokens_asserted with no upper limit
tokens_asserted_nonempty(tokens_1, tokens_2) ==
    0 < Len(tokens_1.rows) /\ 0 < Len(tokens_2.rows)

\* assert 0 < len(tokens_1) <= 10 and 0 < len(tokens_2) <= 10
tokens_asserted(tokens_1, tokens_2) ==
    /\ 0 < Len(tokens_1.rows) /\ Len(tokens_1.rows) <= 10
    /\ 0 < Len(tokens_2.rows) /\ Len(tokens_2.rows) <= 10

\* compute_distance(self, pairs_row, gold_df, pool): the distance of a pair,
\* or the exception raised, and the metric handed to cdist ("" when cdist is
\* not reached)
compute_distance(self, pairs_row, gold_df, pool) ==
    LET gold_t == where(gold_df, LAMBDA r : r["type"] = pairs_row["type"])
        of_word(w) == where(gold_t, LAMBDA r : r["word"] = w)
        tokens_1 == of_word(pairs_row["word_1"])
        tokens_2 == of_word(pairs_row["word_2"])
    IN  IF pairs_row["type"] = "librispeech"
        THEN IF ~tokens_asserted(tokens_1, tokens_2)
             THEN [raised |-> "AssertionError", value |-> FloatNaN, metric |-> ""]
             ELSE LET x == PoolingsOf(pool, ToSet(column(tokens_1, "filename")))
                      y == PoolingsOf(pool, ToSet(column(tokens_2, "filename")))
                      d == cdist(x, y, self.metric.value)
                  IN  IF d.raised # ""
                      THEN [raised |-> d.raised, value |-> FloatNaN, metric |-> self.metric.value]
                      ELSE [raised |-> "", value |-> matrix_mean(d.value),
                            metric |-> self.metric.value]
        ELSE IF pairs_row["type"] = "synthetic"
        THEN LET tokens == Flatten([i \in DOMAIN tokens_1.rows |->
                               LET m == SelectSeq(tokens_2.rows,
                                            LAMBDA r : r["voice"] = tokens_1.rows[i]["voice"])
                               IN  [j \in DOMAIN m |-> <<tokens_1.rows[i]["filename"], m[j]["filename"]>>]])
                 \* one turn of the loop: the distance, or the exception
                 turn(t) ==
                     LET xs == PoolingsOf(pool, {t[1]})
                         ys == PoolingsOf(pool, {t[2]})
                         \* [0][0] of the distances of np.atleast_2d(x) to
                         \* np.atleast_2d(y): of their first frames, when whole
                         first(p) == IF DOMAIN p = {"frames"} THEN [pooled |-> p.frames[1]] ELSE p
                     IN  \* .item() of a series that has not one element
                         IF Len(xs) # 1 \/ Len(ys) # 1
                         THEN [raised |-> "ValueError", value |-> FloatNaN, metric |-> ""]
                         ELSE LET d == cdist(<<first(xs[1])>>, <<first(ys[1])>>, str(self.metric))
                              IN  IF d.raised # ""
                                  THEN [raised |-> d.raised, value |-> FloatNaN,
                                        metric |-> str(self.metric)]
                                  ELSE [raised |-> "", value |-> d.value[1][1],
                                        metric |-> str(self.metric)]
                 turns == [k \in DOMAIN tokens |-> turn(tokens[k])]
             IN  IF \E k \in DOMAIN turns : turns[k].raised # ""
                 THEN LET k == CHOOSE k \in DOMAIN turns : turns[k].raised # ""
                                   /\ \A j \in 1..(k - 1) : turns[j].raised = ""
                      IN  [raised |-> turns[k].raised, value |-> FloatNaN,
                           metric |-> turns[k].metric]
                 ELSE IF tokens = <<>>
                 THEN [raised |-> "ZeroDivisionError", value |-> FloatNaN, metric |-> ""]
                 ELSE LET t == FracSum([k \in DOMAIN turns |-> turns[k].value])
                      IN  [raised |-> "", value |-> Frac(t.num, t.den * Len(tokens)),
                           metric |-> turns[1].metric]
        ELSE [raised |-> "", value |-> FloatNaN, metric |-> ""]

\* build_file_index(self, synthetic, librispeech): type -> stem -> path
build_file_index(self, synthetic, librispeech) ==
    LET of(item) == [st \in {item.files_list[i].stem : i \in DOMAIN item.files_list} |->
                        LET last == CHOOSE i \in DOMAIN item.files_list :
                                       /\ item.files_list[i].stem = st
                                       /\ \A j \in DOMAIN item.files_list :
                                             item.files_list[j].stem = st => j <= i
                        IN  item.files_list[last]]
    IN  [t \in (IF self.librispeech THEN {"librispeech"} ELSE {})
               \cup (IF self.synthetic THEN {"synthetic"} ELSE {}) |->
            IF t = "librispeech" THEN of(librispeech) ELSE of(synthetic)]

\* load_numpy_array(path): the array in the file, or the exception of the loader
load_numpy_array(path) ==
    IF path.array.ok THEN [raised |-> "", data |-> path.array.frames]
    ELSE [raised |-> "Exception", data |-> <<>>]

\* what semantic_eval returns when an exception leaves it
semantic_failed(e) == [raised |-> e, pairs_df |-> NoFrame, correlation |-> None]

\* compute(_row) of semantic_eval, for _row[0] and _row[1] of a gold row: the
\* line of the pool, or the exception of the loader
compute(self, file_index, gold_df, _row) ==
    LET first == _row[gold_df.columns[1]]
        second == _row[gold_df.columns[2]]
        known == first \in DOMAIN file_index /\ second \in DOMAIN file_index[first]
        data == load_numpy_array(file_index[first][second])
    IN  IF ~known
        THEN [raised |-> "", row |-> [filename |-> second, type |-> first, pooling |-> NoPooling]]
        ELSE IF data.raised # "" THEN [raised |-> data.raised, row |-> <<>>]
        ELSE [raised |-> "",
              row |-> [filename |-> second, type |-> first,
                       pooling |-> SemanticPooling_fn(self.pooling, data.data)]]

\* pd.DataFrame(res, columns=['filename', 'type', 'pooling'])
pool_frame(res) ==
    DataFrame(<<"filename", "type", "pooling">>,
              Renumbered([i \in DOMAIN res |-> res[i].row]), RangeIndex)

\* semantic_eval from the list the workers gave: the pool, the scores of the
\* pairs and the correlation, or the exception raised
pool_scores(self, gold_df, pairs_df, res) ==
    LET \* return pairs_df, correlation
        correlated(scored) ==
            [raised |-> "", pairs_df |-> scored, correlation |-> compute_correlation(self, scored)]
        \* pairs_df['score'] = the distances, unless one of them raised
        scored(dist) ==
            IF \E i \in DOMAIN dist : dist[i].raised # ""
            THEN semantic_failed(dist[CHOOSE i \in DOMAIN dist : dist[i].raised # ""
                                 /\ \A j \in 1..(i - 1) : dist[j].raised = ""].raised)
            ELSE correlated(DataFrame(pairs_df.columns \o <<"score">>,
                               [i \in DOMAIN pairs_df.rows |->
                                   pairs_df.rows[i] @@ [c \in {"score"} |-> dist[i].value]],
                               pairs_df.index))
        \* pairs_df.apply(compute_distance) over the pool
        distances(pool) ==
            scored([i \in DOMAIN pairs_df.rows |->
                       compute_distance(self, pairs_df.rows[i], gold_df, pool)])
    IN  \* a load of an array that raised leaves Parallel
        IF \E i \in DOMAIN res : res[i].raised # "" THEN semantic_failed("Exception")
        ELSE distances(pool_frame(res))

\* the tables semantic_eval works on: those of the files, without the lines
\* of a type that is off
semantic_tables(self, gold, pairs) ==
    LET enabled(r) == /\ (self.synthetic \/ r["type"] # "synthetic")
                      /\ (self.librispeech \/ r["type"] # "librispeech")
        loaded(pairs_loaded, gold_loaded) ==
            IF pairs_loaded.raised # ""
            THEN [raised |-> pairs_loaded.raised, gold_df |-> NoFrame, pairs_df |-> NoFrame]
            ELSE IF gold_loaded.raised # ""
            THEN [raised |-> gold_loaded.raised, gold_df |-> NoFrame, pairs_df |-> NoFrame]
            ELSE [raised |-> "", gold_df |-> where(gold_loaded.df, enabled),
                  pairs_df |-> where(pairs_loaded.df, enabled)]
    IN  loaded(load_dataframe(pairs, NoIndexCol), load_dataframe(gold, NoIndexCol))

\* semantic_eval(self, file_index, gold, pairs): the pairs with their scores
\* and the correlation, or the exception raised; the workers one after the
\* other
semantic_eval(self, file_index, gold, pairs) ==
    LET pooled(gold_df, pairs_df) ==
            pool_scores(self, gold_df, pairs_df,
                        [i \in DOMAIN gold_df.rows |->
                            compute(self, file_index, gold_df, gold_df.rows[i])])
        filtered(tables) ==
            IF tables.raised # "" THEN semantic_failed(tables.raised)
            ELSE pooled(tables.gold_df, tables.pairs_df)
    IN  filtered(semantic_tables(self, gold, pairs))

\* bool(x) of None and of a table: a table has no truth value
bool(x) ==
    IF x.isNone THEN [raised |-> "", value |-> FALSE]
    ELSE [raised |-> "ValueError", value |-> FALSE]

\* one `if name in self.sets:' block of SemanticTask.eval
SemanticTask_eval_subset(self, submission, dataset, name, score_dir) ==
    LET filenames == semantic_result_filenames[name]
        \* if self.correlations and correlation: write the correlation
        correlation_block(done, with_pairs, truth) ==
            IF truth.raised # "" THEN [raised |-> truth.raised, score_dir |-> with_pairs]
            ELSE IF truth.value
            THEN [raised |-> "",
                  score_dir |-> WriteResults(with_pairs, <<None, done.correlation>>, filenames)]
            ELSE [raised |-> "", score_dir |-> with_pairs]
        \* res_pairs.to_csv, when semantic_eval returned
        pairs_block(done) ==
            IF done.raised # "" THEN [raised |-> done.raised, score_dir |-> score_dir]
            ELSE correlation_block(done,
                    WriteResults(score_dir, <<Some(done.pairs_df)>>, filenames),
                    IF self.correlations THEN bool(done.correlation)
                    ELSE [raised |-> "", value |-> FALSE])
    IN  pairs_block(semantic_eval(self,
                        build_file_index(self, submission.items[name].synthetic,
                                         submission.items[name].librispeech),
                        dataset.index.subsets[name].items.gold,
                        dataset.index.subsets[name].items.pairs))

\* the `if 'dev' in self.sets:' block of SemanticTask.eval, then its `if 'test'
\* in self.sets:' block, each ended by the exception that leaves it
RECURSIVE SemanticTask_eval_blocks(_, _, _, _, _)
SemanticTask_eval_blocks(self, submission, dataset, names, score_dir) ==
    IF names = <<>> THEN [raised |-> "", score_dir |-> score_dir]
    ELSE IF Head(names) \notin submission.sets
    THEN SemanticTask_eval_blocks(self, submission, dataset, Tail(names), score_dir)
    ELSE LET next(done) ==
                 IF done.raised # "" THEN done
                 ELSE SemanticTask_eval_blocks(self, submission, dataset, Tail(names),
                                               done.score_dir)
         IN  next(SemanticTask_eval_subset(self, submission, dataset, Head(names), score_dir))

\* a variant of SemanticTask_eval that goes on to the test subset when the
\* dev subset raised
SemanticTask_eval_isolated(self, submission, dataset, score_dir) ==
    LET test_block(dev) ==
            IF "test" \in submission.sets
            THEN SemanticTask_eval_subset(self, submission, dataset, "test", dev.score_dir)
            ELSE [raised |-> "", score_dir |-> dev.score_dir]
    IN  test_block(IF "dev" \in submission.sets
                   THEN SemanticTask_eval_subset(self, submission, dataset, "dev", score_dir)
                   ELSE [raised |-> "", score_dir |-> score_dir])

\* SemanticTask.eval(self, submission, dataset): the score directory it leaves
\* and the exception that left it ("" for none)
SemanticTask_eval(self, submission, dataset, score_dir) ==
    SemanticTask_eval_blocks(self, submission, dataset, <<"dev", "test">>, score_dir)

(***************************************************************************)
(* Inputs of the validators                                                *)
(***************************************************************************)
Names == {"a", "b", "c"}
NameLists == SeqsUpTo(Names, MaxLen)
Suffixes == {".npy", ".txt"}
Paths == [stem : Names, suffix : Suffixes]
PathLists == SeqsUpTo(Paths, MaxLen)

ColumnNames == {"filename", "score"}
ColumnLists == SeqsUpTo(ColumnNames, MaxCols)
Contents == {Malformed} \cup {FileContent(c, <<>>) : c \in ColumnLists}
FileItems == [kind : {"FileItem"}, file_type : FileTypes, file : {"f"}, content : Contents]

(***************************************************************************)
(* The task engines' state when no engine runs                             *)
(***************************************************************************)
NoTask == [name |-> "none"]
NoInputs == [name |-> "none"]

\* no command runs, no dataset was loaded, no pool of workers was started
NoCommand == [pc |-> "none"]
NoDatasets == [cache |-> <<>>]
NoWorkers == [pc |-> "none"]
IdleProcess ==
    /\ cli = NoCommand
    /\ datasets = NoDatasets
    /\ workers = NoWorkers

IdleEngines ==
    /\ IdleProcess
    /\ task = NoTask
    /\ sets = {}
    /\ inputs = NoInputs
    /\ written = <<>>
    /\ raised = ""
    /\ pc = "idle"

(***************************************************************************)
(* Specification of the validators: one call, with any arguments           *)
(***************************************************************************)
InitValidators ==
    /\ call = NoCall
    /\ ret = None
    /\ IdleEngines

CallListChecker ==
    /\ call = NoCall
    /\ \E given \in NameLists, expected \in NameLists :
          /\ call' = [fn |-> "list_checker", given |-> given, expected |-> expected]
          /\ ret' = list_checker(given, expected)
    /\ UNCHANGED <<task, sets, inputs, written, raised, pc, cli, datasets, workers>>

CallFileListChecker ==
    /\ call = NoCall
    /\ \E files_list \in PathLists, expected \in PathLists :
          /\ call' = [fn |-> "file_list_checker", files_list |-> files_list, expected |-> expected]
          /\ ret' = file_list_checker([kind |-> "FileListItem", files_list |-> files_list], expected)
    /\ UNCHANGED <<task, sets, inputs, written, raised, pc, cli, datasets, workers>>

CallDataframeCheck ==
    /\ call = NoCall
    /\ \E item \in FileItems, expected_columns \in {None} \cup {Some(c) : c \in ColumnLists} :
          /\ call' = [fn |-> "dataframe_check", item |-> item, expected_columns |-> expected_columns]
          /\ ret' = dataframe_check(item, expected_columns)
    /\ UNCHANGED <<task, sets, inputs, written, raised, pc, cli, datasets, workers>>

NextValidators ==
    \/ CallListChecker
    \/ CallFileListChecker
    \/ CallDataframeCheck

SpecValidators == InitValidators /\ [][NextValidators]_vars

(***************************************************************************)
(* Inputs of the lexical task: a gold file and a submission file           *)
(***************************************************************************)
\* voices per pair
NumVoices == 2
\* rows of a pairwise table handed to eval_by_frequency
MaxPairRows == 2

PairIds == {1, 2}
Voices == 1..NumVoices
\* the score of a word: below, at and above the score of its non word
Scores == {0, 1, 2}
NonWordScores == {1}
Frequencies == {0, 1, 4, 5, 19, 20, 99, 100, 1000}
Lengths == {3, 4}

\* the header of a gold file: the order the documentation gives, and the
\* order of the columns that the picks of eval_by_pair fit
GoldHeaders ==
    { <<"filename", "word", "phones", "correct", "frequency", "length", "voice", "id">>,
      <<"id", "filename", "voice", "frequency", "word", "phones", "length", "correct">> }

\* file names, words, non words and phones, as numbers
FileName(id, voice, correct) == 100 * id + 10 * voice + correct
Word(id) == 10 + id
NonWord(id) == 20 + id
Phones(id, correct) == 30 + 2 * id + correct

\* the stimuli of a gold file: a word and a non word per voice and pair id
Stimuli ==
    LET ids == Sorted(PairIds)
    IN  Flatten(Flatten([i \in DOMAIN ids |->
            [v \in 1..NumVoices |->
                <<[id |-> ids[i], voice |-> v, correct |-> 1],
                  [id |-> ids[i], voice |-> v, correct |-> 0]>>]]))

\* a gold file: the frequency and the length of each pair, and whether its non
\* word has a written form
GoldFile(header, frequency, length, written_non_word) ==
    FileContent(header,
        [k \in DOMAIN Stimuli |->
            LET s == Stimuli[k]
            IN  [filename |-> FileName(s.id, s.voice, s.correct),
                 word |-> IF s.correct = 1 THEN Word(s.id)
                          ELSE IF written_non_word[s.id] THEN NonWord(s.id) ELSE NaN,
                 phones |-> Phones(s.id, s.correct),
                 correct |-> s.correct,
                 frequency |-> frequency[s.id],
                 length |-> length[s.id],
                 voice |-> s.voice,
                 id |-> s.id]])

\* a submission file, read with names=['filename', 'score']: the score of the
\* word and of the non word of each voice and pair id
LexicalFile(word_score, non_word_score) ==
    FileContent(<<"filename", "score">>,
        [k \in DOMAIN Stimuli |->
            LET s == Stimuli[k]
            IN  [filename |-> FileName(s.id, s.voice, s.correct),
                 score |-> IF s.correct = 1 THEN word_score[<<s.id, s.voice>>]
                           ELSE non_word_score[<<s.id, s.voice>>]]])

FileItem(file_type, file, content) ==
    [kind |-> "FileItem", file_type |-> file_type, file |-> file, content |-> content]

\* tables such as eval_by_pair returns: of any frequencies, of any lengths
PairTable(rows) ==
    DataFrame(<<"word", "non word", "frequency", "length", "score">>,
              Renumbered([i \in DOMAIN rows |-> rows[i] @@ [c \in {"non word"} |-> NonWord(1)]]),
              RangeIndex)
PairScores == {Frac(0, 1), Frac(1, 2), Frac(1, 1)}
FrequencyTables ==
    {PairTable(rows) : rows \in SeqsUpTo([word : {Word(1)}, frequency : Frequencies,
                                          length : {3}, score : PairScores], MaxPairRows)}
LengthTables ==
    {PairTable(rows) : rows \in SeqsUpTo([word : {Word(1)}, frequency : {0},
                                          length : Lengths, score : PairScores], MaxPairRows)}

(***************************************************************************)
(* Specification of the lexical scores: one call, with any arguments       *)
(***************************************************************************)
InitLexicalScores ==
    /\ call = NoCall
    /\ ret = None
    /\ IdleEngines

\* load_and_format of a gold file and a submission file, then eval_by_pair
CallEvalByPair ==
    /\ call = NoCall
    /\ \E header \in GoldHeaders,
          written_non_word \in [PairIds -> BOOLEAN],
          word_score \in [PairIds \X Voices -> Scores],
          non_word_score \in [PairIds \X Voices -> NonWordScores] :
          LET gold == FileItem("csv", "gold.csv",
                          GoldFile(header, [i \in PairIds |-> 5 * (i - 1)],
                                   [i \in PairIds |-> 2 + i], written_non_word))
              lexical == FileItem("txt", "dev.txt",
                             LexicalFile(word_score, non_word_score))
              loaded == load_and_format(lexical, gold)
          IN  /\ call' = [fn |-> "eval_by_pair", gold |-> gold, lexical |-> lexical,
                          data |-> loaded.data]
              /\ ret' = eval_by_pair(loaded.data)
    /\ UNCHANGED <<task, sets, inputs, written, raised, pc, cli, datasets, workers>>

\* the submission files that leave out some stimuli of the gold file
Dropped == {d \in SUBSET {FileName(Stimuli[k].id, Stimuli[k].voice, Stimuli[k].correct) :
                             k \in DOMAIN Stimuli} : Cardinality(d) <= MaxDropped}
Without(content, dropped) ==
    FileContent(content.columns,
                SelectSeq(content.rows, LAMBDA r : r["filename"] \notin dropped))

\* load_and_format of a gold file and of a submission file that holds some of
\* its stimuli
CallLoadAndFormat ==
    /\ call = NoCall
    /\ \E header \in GoldHeaders,
          written_non_word \in [PairIds -> BOOLEAN],
          dropped \in Dropped :
          LET gold == FileItem("csv", "gold.csv",
                          GoldFile(header, [i \in PairIds |-> 5 * (i - 1)],
                                   [i \in PairIds |-> 2 + i], written_non_word))
              lexical == FileItem("txt", "dev.txt",
                             Without(LexicalFile([p \in PairIds \X Voices |-> 1],
                                                 [p \in PairIds \X Voices |-> 1]), dropped))
          IN  /\ call' = [fn |-> "load_and_format", gold |-> gold, lexical |-> lexical]
              /\ ret' = load_and_format(lexical, gold)
    /\ UNCHANGED <<task, sets, inputs, written, raised, pc, cli, datasets, workers>>

CallEvalByFrequency ==
    /\ call = NoCall
    /\ \E data \in FrequencyTables :
          /\ call' = [fn |-> "eval_by_frequency", data |-> data]
          /\ ret' = eval_by_frequency(data)
    /\ UNCHANGED <<task, sets, inputs, written, raised, pc, cli, datasets, workers>>

CallEvalByLength ==
    /\ call = NoCall
    /\ \E data \in LengthTables :
          /\ call' = [fn |-> "eval_by_length", data |-> data]
          /\ ret' = eval_by_length(data)
    /\ UNCHANGED <<task, sets, inputs, written, raised, pc, cli, datasets, workers>>

NextLexicalScores ==
    \/ CallEvalByPair
    \/ CallLoadAndFormat
    \/ CallEvalByFrequency
    \/ CallEvalByLength

SpecLexicalScores == InitLexicalScores /\ [][NextLexicalScores]_vars

(***************************************************************************)
(* Inputs of the semantic task                                             *)
(***************************************************************************)
\* a feature file of a submission: its stem and the array it holds
Npy(stem, frames) == [stem |-> stem, suffix |-> ".npy", array |-> [ok |-> TRUE, frames |-> frames]]
FileListItem(files_list) == [kind |-> "FileListItem", files_list |-> files_list]

\* a gold file: a token per line, its type and its file name first
SemanticGoldFile ==
    FileContent(<<"type", "filename", "voice", "word">>,
        << [type |-> "librispeech", filename |-> "ls_a_1", voice |-> "", word |-> "a"],
           [type |-> "librispeech", filename |-> "ls_a_2", voice |-> "", word |-> "a"],
           [type |-> "librispeech", filename |-> "ls_b_1", voice |-> "", word |-> "b"],
           [type |-> "synthetic", filename |-> "syn_a_v1", voice |-> "v1", word |-> "a"],
           [type |-> "synthetic", filename |-> "syn_b_v1", voice |-> "v1", word |-> "b"] >>)

\* a pairs file: a pair of words per line, with the judgments of its dataset
SemanticPairsFile(similarity, relatedness) ==
    FileContent(<<"type", "dataset", "word_1", "word_2", "similarity", "relatedness">>,
        << [type |-> "librispeech", dataset |-> "mturk-771", word_1 |-> "a", word_2 |-> "b",
            similarity |-> similarity, relatedness |-> relatedness],
           [type |-> "synthetic", dataset |-> "mturk-771", word_1 |-> "a", word_2 |-> "b",
            similarity |-> similarity, relatedness |-> relatedness] >>)

LibrispeechFiles ==
    FileListItem(<<Npy("ls_a_1", <<1, 3>>), Npy("ls_a_2", <<2, 2>>), Npy("ls_b_1", <<4, 7>>)>>)
SyntheticFiles ==
    FileListItem(<<Npy("syn_a_v1", <<1, 2>>), Npy("syn_b_v1", <<5, 3>>)>>)

SemanticTasks ==
    [name : {"semantic"}, metric : {SemanticMetrics("euclidean")},
     pooling : {"mean", "max", "lastlast", "off"},
     synthetic : BOOLEAN, librispeech : BOOLEAN, correlations : BOOLEAN,
     n_jobs : {1}, sets : {{"dev", "test"}}]

SemanticInputs ==
    [name : {"semantic"},
     gold_dev : {FileItem("csv", "semantic/dev/gold.csv", c) : c \in {SemanticGoldFile, Malformed}},
     pairs_dev : {FileItem("csv", "semantic/dev/pairs.csv", c) :
                     c \in {SemanticPairsFile(3, NaN), SemanticPairsFile(NaN, 4), Malformed}},
     gold_test : {FileItem("csv", "semantic/test/gold.csv", SemanticGoldFile)},
     pairs_test : {FileItem("csv", "semantic/test/pairs.csv", SemanticPairsFile(3, NaN))}]

(***************************************************************************)
(* Specification of the task engines: a configured task, a submission and  *)
(* a dataset; eval runs once                                               *)
(***************************************************************************)
Subset(gold) == [kind |-> "Subset", items |-> [gold |-> gold]]

\* one well-formed submission file
GoodLexicalFile ==
    LexicalFile([p \in PairIds \X Voices |-> IF p[1] = 1 THEN p[2] ELSE 1],
                [p \in PairIds \X Voices |-> 1])
\* the well-formed gold files, one per header
GoodGoldFiles ==
    {GoldFile(h, [i \in PairIds |-> 5 * (i - 1)], [i \in PairIds |-> 2 + i],
              [i \in PairIds |-> TRUE]) : h \in GoldHeaders}

LexicalTasks ==
    [name : {"lexical"}, by_pair : BOOLEAN, by_frequency : BOOLEAN, by_length : BOOLEAN]

LexicalInputs ==
    [name : {"lexical"},
     lexical_dev : {FileItem("txt", "lexical/dev.txt", c) : c \in {GoodLexicalFile, Malformed}},
     lexical_test : {FileItem("txt", "lexical/test.txt", c) : c \in {GoodLexicalFile, Malformed}},
     gold_dev : {FileItem("csv", "lexical/dev/gold.csv", c) : c \in GoodGoldFiles \cup {Malformed}},
     gold_test : {FileItem("csv", "lexical/test/gold.csv", c) : c \in GoodGoldFiles}]

InitTasks ==
    /\ call = NoCall
    /\ ret = None
    /\ \/ task \in SemanticTasks /\ inputs \in SemanticInputs
       \/ task \in LexicalTasks /\ inputs \in LexicalInputs
    /\ sets \in SUBSET {"dev", "test"}
    /\ written = <<>>
    /\ raised = ""
    /\ pc = "configured"
    /\ IdleProcess

\* LexicalTask.eval(submission, dataset)
LexicalEval ==
    /\ pc = "configured"
    /\ task.name = "lexical"
    /\ LET submission == [sets |-> sets,
                          items |-> [lexical_dev |-> inputs.lexical_dev,
                                     lexical_test |-> inputs.lexical_test]]
           dataset == [index |-> [subsets |-> [lexical_dev |-> Subset(inputs.gold_dev),
                                               lexical_test |-> Subset(inputs.gold_test)]]]
           \* eval returns, or an exception leaves it
           end(done) == /\ written' = done.score_dir
                        /\ raised' = done.raised
                        /\ pc' = IF done.raised = "" THEN "completed" ELSE "failed"
       IN  end(LexicalTask_eval(task, submission, dataset, written))
    /\ UNCHANGED <<call, ret, task, sets, inputs, cli, datasets, workers>>

\* SemanticTask.eval(submission, dataset)
SemanticEval ==
    /\ pc = "configured"
    /\ task.name = "semantic"
    /\ LET self == [task EXCEPT !.sets = sets]
           submission == [sets |-> sets,
                          items |-> [dev |-> [synthetic |-> SyntheticFiles,
                                              librispeech |-> LibrispeechFiles],
                                     test |-> [synthetic |-> SyntheticFiles,
                                               librispeech |-> LibrispeechFiles]]]
           dataset == [index |-> [subsets |->
                          [dev |-> [kind |-> "Subset",
                                    items |-> [gold |-> inputs.gold_dev, pairs |-> inputs.pairs_dev]],
                           test |-> [kind |-> "Subset",
                                     items |-> [gold |-> inputs.gold_test, pairs |-> inputs.pairs_test]]]]]
           \* eval returns, or an exception leaves it
           end(done) == /\ written' = done.score_dir
                        /\ raised' = done.raised
                        /\ pc' = IF done.raised = "" THEN "completed" ELSE "failed"
       IN  /\ task' = self
           /\ end(SemanticTask_eval(self, submission, dataset, written))
    /\ UNCHANGED <<call, ret, sets, inputs, cli, datasets, workers>>

NextTasks ==
    \/ LexicalEval
    \/ SemanticEval

SpecTasks == InitTasks /\ [][NextTasks]_vars

(***************************************************************************)
(* Properties of the validators (checked under SpecValidators)             *)
(***************************************************************************)
IsListCheckerCall == call.fn = "list_checker"
Given == ToSet(call.given)
Expected == ToSet(call.expected)
Missing == Expected \ Given
Extra == Given \ Expected

C3_OkIffSameMembers ==
    IsListCheckerCall =>
        /\ (Given = Expected) =>
              /\ ~ret.isNone
              /\ Len(ret.value) = 1
              /\ ret.value[1].kind = "ValidationOK"
        /\ (~ret.isNone /\ \E i \in DOMAIN ret.value : ret.value[i].kind = "ValidationOK")
              => Given = Expected

\* same members, but not the same list
C3_Witness ==
    /\ IsListCheckerCall
    /\ Given = Expected
    /\ call.given # call.expected
    /\ ret = Some(<<ValidationOK("expected files found")>>)

\* C22: for every pair of lists list_checker returns a list of exactly one
\* response, never None: when the two sets differ one of the two differences
\* is non-empty and the response is an Error, otherwise it is the OK.
C22_ExactlyOneResponse ==
    IsListCheckerCall =>
        /\ ~ret.isNone
        /\ Len(ret.value) = 1
        /\ ret.value[1].kind \in {"ValidationOK", "ValidationError"}
        /\ Given # Expected =>
              /\ Extra # {} \/ Missing # {}
              /\ ret.value[1].kind = "ValidationError"
              /\ ret.value[1].data \in {Extra, Missing} \ {{}}

\* files in excess only, and nothing given that was expected: the one
\* response is the Error of the first branch
C22_Witness ==
    /\ IsListCheckerCall
    /\ Expected = {} /\ Cardinality(Extra) = 2
    /\ ~ret.isNone
    /\ Len(ret.value) = 1
    /\ ret.value[1] = ValidationError("more files found", Given)

IsDataframeCheckCall == call.fn = "dataframe_check"

\* the three conditions of an accepted table
DataframeAccepted ==
    /\ call.item.file_type \in dataframe_types
    /\ call.item.content.ok
    /\ ~call.expected_columns.isNone
    /\ call.item.content.columns = call.expected_columns.value

\* C4: dataframe_check returns a table iff its single response is OK, which
\* happens exactly when the file type is tabular, the parse raises nothing and
\* the parsed columns equal expected_columns in order; a non-tabular type is
\* an Error with no parse attempt; any other failure is an Error and no table.
C4_TableIffOk ==
    IsDataframeCheckCall =>
        /\ Len(ret.responses) = 1
        /\ (~ret.df.isNone) <=> (ret.responses[1].kind = "ValidationOK")
        /\ (ret.responses[1].kind = "ValidationOK") <=> DataframeAccepted
        /\ (~DataframeAccepted) => ret.responses[1].kind = "ValidationError"
        /\ (~ret.df.isNone) => ret.df.value = range_index(call.item.content)
        /\ (call.item.file_type \notin dataframe_types) => ret.trace = <<>>

\* the same columns in another order: an Error and no table
C4_Witness ==
    /\ IsDataframeCheckCall
    /\ call.item.file_type \in dataframe_types
    /\ call.item.content.ok
    /\ ~call.expected_columns.isNone
    /\ call.item.content.columns # call.expected_columns.value
    /\ ToSet(call.item.content.columns) = ToSet(call.expected_columns.value)
    /\ Len(call.expected_columns.value) = 2
    /\ ret.df.isNone
    /\ ret.responses[1].kind = "ValidationError"

(***************************************************************************)
(* Properties of the lexical scores (checked under SpecLexicalScores)      *)
(***************************************************************************)
IsEvalByPairCall == call.fn = "eval_by_pair"

\* the rows of the table handed to eval_by_pair that belong to a pair id
RowsOfPair(id) == SelectSeq(call.data.rows, LAMBDA r : r["id"] = id)
Wins(id) == Len(SelectSeq(RowsOfPair(id), LAMBDA r : r["score word"] > r["score non word"]))
Ties(id) == Len(SelectSeq(RowsOfPair(id), LAMBDA r : r["score word"] = r["score non word"]))
\* the pair ids of the table, in the order of the rows returned
PairIdsOfCall == Sorted({call.data.rows[i]["id"] : i \in DOMAIN call.data.rows})

\* C5: the score of a pair id is the mean over its voices of 1 for a word
\* scored above its non word, 0.5 for a tie and 0 otherwise; so it is exactly
\* 0.5 when every voice ties, 1 when every voice wins, 0 when every voice loses.
C5_ScoreIsMeanOverVoices ==
    IsEvalByPairCall =>
        /\ Len(ret.rows) = Len(PairIdsOfCall)
        /\ \A i \in DOMAIN PairIdsOfCall :
              LET id == PairIdsOfCall[i]
                  n == Len(RowsOfPair(id))
              IN  /\ ret.rows[i]["score"] = Frac(2 * Wins(id) + Ties(id), 2 * n)
                  /\ (Ties(id) = n) => ret.rows[i]["score"] = [num |-> 1, den |-> 2]
                  /\ (Wins(id) = n) => ret.rows[i]["score"] = [num |-> 1, den |-> 1]
                  /\ (Wins(id) = 0 /\ Ties(id) = 0) => ret.rows[i]["score"] = [num |-> 0, den |-> 1]

\* one pair ties in every voice, the other wins one voice and ties another
C5_Witness ==
    /\ IsEvalByPairCall
    /\ Len(ret.rows) = 2
    /\ Ties(1) = Len(RowsOfPair(1)) /\ Len(RowsOfPair(1)) >= 2
    /\ ret.rows[1]["score"] = [num |-> 1, den |-> 2]
    /\ Wins(2) = 1 /\ Ties(2) = Len(RowsOfPair(2)) - 1
    /\ ret.rows[2]["score"] = Frac(1 + Len(RowsOfPair(2)), 2 * Len(RowsOfPair(2)))

\* C6: eval_by_pair of the table of load_and_format returns one row per pair
\* id, with the columns word, non word, frequency, length, score, and under
\* word, non word, frequency and length the pair's own word, non word,
\* frequency and length.
C6_PicksLandOnTheirColumns ==
    IsEvalByPairCall =>
        /\ ret.columns = <<"word", "non word", "frequency", "length", "score">>
        /\ Len(ret.rows) = Len(PairIdsOfCall)
        /\ \A i \in DOMAIN PairIdsOfCall :
              LET first == RowsOfPair(PairIdsOfCall[i])[1]
              IN  /\ ret.rows[i]["word"] = first["word"]
                  /\ ret.rows[i]["non word"] = first["non word"]
                  /\ ret.rows[i]["frequency"] = first["frequency"]
                  /\ ret.rows[i]["length"] = first["length"]

IsEvalByFrequencyCall == call.fn = "eval_by_frequency"

\* the band the documentation gives a frequency
BandOf(f) ==
    CASE f = 0 -> "oov"
      [] 1 <= f /\ f < 5 -> "1-5"
      [] 5 <= f /\ f < 20 -> "6-20"
      [] 20 <= f /\ f < 100 -> "21-100"
      [] f >= 100 -> ">100"

\* the count that eval_by_frequency reports for a band
CountOfBand(label) ==
    LET i == CHOOSE j \in DOMAIN ret.rows : ret.rows[j]["frequency"] = label
    IN  ret.rows[i]["n"]

IsLoadAndFormatCall == call.fn = "load_and_format"

\* the rows of the gold file whose file the submission holds: the joined table
Joined ==
    SelectSeq(call.gold.content.rows,
              LAMBDA g : \E i \in DOMAIN call.lexical.content.rows :
                            call.lexical.content.rows[i]["filename"] = g["filename"])
\* every non word of the joined table lacks its written form
AllNonWordsNull ==
    \A i \in DOMAIN Joined : Joined[i]["correct"] = 0 => isnull(Joined[i]["word"])
\* the row of the joined table of a stimulus
JoinedRow(id, voice, correct) ==
    Joined[CHOOSE i \in DOMAIN Joined :
              /\ Joined[i]["id"] = id /\ Joined[i]["voice"] = voice
              /\ Joined[i]["correct"] = correct]

\* C15: load_and_format puts the phones in the place of the word, for the
\* words and for the non words, if and only if every non word row of the
\* joined table has a null word; otherwise the word column is left as it is
\* for all the rows.
C15_PhonesIffAllNonWordsNull ==
    IsLoadAndFormatCall =>
        /\ ret.raised = ""
        /\ \A i \in DOMAIN ret.data.rows :
              LET r == ret.data.rows[i]
                  w == JoinedRow(r["id"], r["voice"], 1)
                  nw == JoinedRow(r["id"], r["voice"], 0)
              IN  /\ r["word"] = IF AllNonWordsNull THEN w["phones"] ELSE w["word"]
                  /\ r["non word"] = IF AllNonWordsNull THEN nw["phones"] ELSE nw["word"]

\* the gold file has a written non word, but the submission leaves its files
\* out: every non word of the joined table is null and the phones are taken
C15_Witness ==
    /\ IsLoadAndFormatCall
    /\ AllNonWordsNull
    /\ \E k \in DOMAIN call.gold.content.rows :
          /\ call.gold.content.rows[k]["correct"] = 0
          /\ ~isnull(call.gold.content.rows[k]["word"])
    /\ Len(ret.data.rows) >= 2
    /\ \A i \in DOMAIN ret.data.rows :
          ret.data.rows[i]["word"] = Phones(ret.data.rows[i]["id"], 1)

(***************************************************************************)
(* Properties of the task engines (checked under SpecTasks)                *)
(***************************************************************************)
IsLexicalRun == task.name = "lexical" /\ pc # "configured"
IsSemanticRun == task.name = "semantic" /\ pc # "configured"
Written == DOMAIN written

\* the three flags of the lexical task, in the order of its reports
LexicalFlags == <<task.by_pair, task.by_frequency, task.by_length>>

\* what scoring the dev subset, and the test subset, of the run would return
DevScoring ==
    IF task.name = "lexical"
    THEN run_lexical_eval(task, inputs.lexical_dev, inputs.gold_dev)
    ELSE semantic_eval(task, build_file_index(task, SyntheticFiles, LibrispeechFiles),
                       inputs.gold_dev, inputs.pairs_dev)
TestScoring ==
    IF task.name = "lexical"
    THEN run_lexical_eval(task, inputs.lexical_test, inputs.gold_test)
    ELSE semantic_eval(task, build_file_index(task, SyntheticFiles, LibrispeechFiles),
                       inputs.gold_test, inputs.pairs_test)

\* C8: for each active subset, each of the three lexical reports is written
\* iff its own flag is on, whatever the other flags; the by-frequency report
\* counts every pair, also when the by-pair report is off.
C8_ReportsFollowFlags ==
    (IsLexicalRun /\ DevScoring.raised = "" /\ TestScoring.raised = "") =>
        \A s \in {"dev", "test"} : \A i \in 1..3 :
            /\ (lexical_result_filenames[s][i] \in Written) <=> (s \in sets /\ LexicalFlags[i])
            /\ (i = 2 /\ s \in sets /\ LexicalFlags[i]) =>
                  LET lines == written[lexical_result_filenames[s][i]].lines
                  IN  SeqSum([k \in DOMAIN lines |-> lines[k]["n"]]) = Cardinality(PairIds)

C10_SemanticReportsWritten ==
    (IsSemanticRun
        /\ (task.librispeech \/ task.synthetic)
        /\ ("dev" \in sets => DevScoring.raised = "")
        /\ ("test" \in sets => TestScoring.raised = "")) =>
        /\ pc = "completed"
        /\ raised = ""
        /\ \A s \in {"dev", "test"} :
              /\ (semantic_result_filenames[s][1] \in Written) <=> (s \in sets)
              /\ (semantic_result_filenames[s][2] \in Written) <=> (s \in sets /\ task.correlations)

\* the outcome of a block of eval that scores a subset as `scoring' did: the
\* exception leaves eval, or the reports of the subset are in the directory
ScoredAs(scoring, name) ==
    IF scoring.raised # "" THEN raised = scoring.raised
    ELSE LET files == WriteResults(<<>>, scoring.results, lexical_result_filenames[name])
         IN  \A f \in DOMAIN files : f \in Written /\ written[f] = files[f]

\* C18: for each active subset it gets to, the lexical eval scores the
\* submission's item of the subset against the gold item of the dataset's
\* subset of that name, dev and test alike.
C18_SubsetsScoredAgainstGold ==
    IsLexicalRun =>
        /\ "dev" \in sets => ScoredAs(DevScoring, "dev")
        /\ ("test" \in sets /\ ("dev" \in sets => DevScoring.raised = "")) =>
              ScoredAs(TestScoring, "test")

(***************************************************************************)
(* Specification of the semantic scores: one call, with any arguments      *)
(***************************************************************************)
\* the human judgments of a pair: missing, or a mark
Judgments == {NaN, 1, 2}
Datasets == {"mturk-771", "wordsim-353"}

\* the lines of a pairs table, before the scores
PairLines ==
    UNION { [1..n -> [type : {"librispeech"}, dataset : Datasets,
                      word_1 : {"a"}, word_2 : {"b"},
                      similarity : Judgments, relatedness : Judgments]] :
            n \in 1..MaxPairLines }

\* pairs_df after pairs_df['score'] = ...: line i has the distance i
ScoredPairs(lines) ==
    DataFrame(<<"type", "dataset", "word_1", "word_2", "similarity", "relatedness", "score">>,
              Renumbered([i \in DOMAIN lines |-> lines[i] @@ [c \in {"score"} |-> Frac(i, 1)]]),
              RangeIndex)

\* how many tokens a word has in the gold table: none, some, the most that
\* compute_distance accepts, and one more
TokenCounts == {0, 1, 2, 10, 11}

\* the librispeech tokens of a word
LibrispeechTokens(w, n) ==
    [k \in 1..n |-> [type |-> "librispeech", filename |-> "ls_" \o w \o "_" \o ToString(k),
                     voice |-> "", word |-> w]]
\* the synthetic tokens of the words a and b, of one voice; `shared' gives the
\* token of a the file name of the first librispeech token of a
SyntheticTokens(shared) ==
    << [type |-> "synthetic", filename |-> IF shared THEN "ls_a_1" ELSE "syn_a_v1",
        voice |-> "v1", word |-> "a"],
       [type |-> "synthetic", filename |-> "syn_b_v1", voice |-> "v1", word |-> "b"] >>
\* a gold file of n_a tokens of a and n_b tokens of b
TokenGold(n_a, n_b, shared) ==
    FileContent(<<"type", "filename", "voice", "word">>,
                LibrispeechTokens("a", n_a) \o LibrispeechTokens("b", n_b)
                \o SyntheticTokens(shared))
\* the array of the file of line i of a gold file: no two lines have arrays of
\* the same mean
Frames(i) == <<4 * i, 4 * i + 2>>
\* the files of a submission for the tokens of one type of a gold file
TokenFiles(gold, type) ==
    LET lines == SelectSeq([i \in DOMAIN gold.rows |-> [line |-> i, row |-> gold.rows[i]]],
                           LAMBDA l : l.row["type"] = type)
    IN  FileListItem([k \in DOMAIN lines |-> Npy(lines[k].row["filename"], Frames(lines[k].line))])
\* the pool of a gold table, as semantic_eval builds it
PoolOf(self, gold) ==
    DataFrame(<<"filename", "type", "pooling">>,
              Renumbered([i \in DOMAIN gold.rows |->
                  [filename |-> gold.rows[i]["filename"], type |-> gold.rows[i]["type"],
                   pooling |-> SemanticPooling_fn(self.pooling, Frames(i))]]),
              RangeIndex)
\* a task with both types on
BothTypes(metric) ==
    [name |-> "semantic", metric |-> SemanticMetrics(metric), pooling |-> "mean",
     synthetic |-> TRUE, librispeech |-> TRUE, correlations |-> FALSE, n_jobs |-> 1,
     sets |-> {"dev", "test"}]
\* a line of a pairs table: the words a and b
PairOf(type) ==
    [type |-> type, dataset |-> "mturk-771", word_1 |-> "a", word_2 |-> "b",
     similarity |-> 3, relatedness |-> NaN]

InitSemanticScores ==
    /\ call = NoCall
    /\ ret = None
    /\ IdleEngines

\* self.compute_correlation(pairs_df)
CallComputeCorrelation ==
    /\ call = NoCall
    /\ \E lines \in PairLines, correlations \in BOOLEAN :
          LET self == [name |-> "semantic", metric |-> SemanticMetrics("euclidean"),
                       pooling |-> "mean", synthetic |-> TRUE, librispeech |-> TRUE,
                       correlations |-> correlations, n_jobs |-> 1,
                       sets |-> {"dev", "test"}]
          IN  /\ call' = [fn |-> "compute_correlation", self |-> self,
                          pairs |-> ScoredPairs(lines)]
              /\ ret' = compute_correlation(self, ScoredPairs(lines))
    /\ UNCHANGED <<task, sets, inputs, written, raised, pc, cli, datasets, workers>>

\* self.compute_distance(pairs_row, gold_df, pool)
CallComputeDistance ==
    /\ call = NoCall
    /\ \E n \in TokenCounts \X TokenCounts, shared \in BOOLEAN,
          type \in {"librispeech", "synthetic"}, metric \in {"euclidean", "cityblock"} :
          LET self == BothTypes(metric)
              n_a == n[1]
              n_b == n[2]
              gold_df == range_index(TokenGold(n_a, n_b, shared))
              pool == PoolOf(self, gold_df)
              pairs_row == PairOf(type) @@ [c \in {RangeIndex} |-> 0]
          IN  /\ call' = [fn |-> "compute_distance", self |-> self, pairs_row |-> pairs_row,
                          gold_df |-> gold_df, pool |-> pool]
              /\ ret' = compute_distance(self, pairs_row, gold_df, pool)
    /\ UNCHANGED <<task, sets, inputs, written, raised, pc, cli, datasets, workers>>

\* self.semantic_eval(file_index, gold, pairs), the index built from the files
\* of the submission
CallSemanticEval ==
    /\ call = NoCall
    /\ \E n \in TokenCounts \X TokenCounts, shared \in BOOLEAN,
          type \in {"librispeech", "synthetic"}, metric \in {"euclidean", "cityblock"} :
          LET self == BothTypes(metric)
              n_a == n[1]
              n_b == n[2]
              content == TokenGold(n_a, n_b, shared)
              gold == FileItem("csv", "semantic/dev/gold.csv", content)
              pairs == FileItem("csv", "semantic/dev/pairs.csv",
                          FileContent(<<"type", "dataset", "word_1", "word_2",
                                        "similarity", "relatedness">>, <<PairOf(type)>>))
              file_index == build_file_index(self, TokenFiles(content, "synthetic"),
                                             TokenFiles(content, "librispeech"))
          IN  /\ call' = [fn |-> "semantic_eval", self |-> self, gold |-> gold,
                          pairs |-> pairs]
              /\ ret' = semantic_eval(self, file_index, gold, pairs)
    /\ UNCHANGED <<task, sets, inputs, written, raised, pc, cli, datasets, workers>>

NextSemanticScores ==
    \/ CallComputeCorrelation
    \/ CallComputeDistance
    \/ CallSemanticEval

SpecSemanticScores == InitSemanticScores /\ [][NextSemanticScores]_vars

(***************************************************************************)
(* Properties of the semantic scores (checked under SpecSemanticScores)    *)
(***************************************************************************)
IsComputeCorrelationCall == call.fn = "compute_correlation" /\ call.self.correlations

\* the lines of the (type, dataset) group of a line of the correlation table
GroupOf(k) ==
    SelectSeq(call.pairs.rows,
              LAMBDA r : r["type"] = ret.value.rows[k]["type"]
                         /\ r["dataset"] = ret.value.rows[k]["dataset"])
\* a column of a group, and whether a value of it is missing
Judged(k, col) == [i \in DOMAIN GroupOf(k) |-> GroupOf(k)[i][col]]
Complete(k, col) == \A i \in DOMAIN GroupOf(k) : ~isnull(GroupOf(k)[i][col])
\* the judgments that were negated and handed to spearmanr
Human(k) ==
    LET a == ret.value.rows[k]["correlation"].spearmanr100.a
    IN  [i \in DOMAIN a |-> a[i].neg]

\* C11, as first stated: in each (type, dataset) group the judgments that are
\* correlated are the similarity column when it has no missing value and the
\* relatedness column otherwise, and they have no missing value whenever one
\* of the two columns has none.
C11_SimilarityWhenComplete ==
    IsComputeCorrelationCall =>
        \A k \in DOMAIN ret.value.rows :
            /\ Human(k) = IF Complete(k, "similarity") THEN Judged(k, "similarity")
                          ELSE Judged(k, "relatedness")
            /\ (Complete(k, "similarity") \/ Complete(k, "relatedness")) =>
                  \A i \in DOMAIN Human(k) : ~isnull(Human(k)[i])

\* C11, amended: in each (type, dataset) group the judgments that are
\* correlated are the relatedness column when it has no missing value and the
\* similarity column otherwise; they have no missing value whenever one of the
\* two columns has none.
C11_RelatednessWhenComplete ==
    IsComputeCorrelationCall =>
        \A k \in DOMAIN ret.value.rows :
            /\ Human(k) = IF Complete(k, "relatedness") THEN Judged(k, "relatedness")
                          ELSE Judged(k, "similarity")
            /\ (Complete(k, "similarity") \/ Complete(k, "relatedness")) =>
                  \A i \in DOMAIN Human(k) : ~isnull(Human(k)[i])

\* a group of two lines with both columns complete and different: relatedness
\* is the one correlated
C11_Witness ==
    /\ IsComputeCorrelationCall
    /\ Len(ret.value.rows) = 1
    /\ Len(GroupOf(1)) = 2
    /\ Complete(1, "similarity") /\ Complete(1, "relatedness")
    /\ Judged(1, "similarity") # Judged(1, "relatedness")
    /\ Human(1) = Judged(1, "relatedness")

IsComputeDistanceCall == call.fn = "compute_distance"
IsSemanticEvalCall == call.fn = "semantic_eval"
\* the gold lines and the pair of the call
CalledGold == IF IsComputeDistanceCall THEN call.gold_df.rows ELSE call.gold.content.rows
CalledPair == IF IsComputeDistanceCall THEN call.pairs_row ELSE call.pairs.content.rows[1]
\* the positions in the gold table of the tokens a word has, of the type of
\* the pair
TokensCalled(w) ==
    {i \in DOMAIN CalledGold : /\ CalledGold[i]["type"] = CalledPair["type"]
                               /\ CalledGold[i]["word"] = w}
InRange(n) == 1 <= n /\ n <= 10
BothInRange ==
    /\ InRange(Cardinality(TokensCalled(CalledPair["word_1"])))
    /\ InRange(Cardinality(TokensCalled(CalledPair["word_2"])))

\* C16: for a librispeech pair, compute_distance returns a distance only when
\* each of the two words has between 1 and 10 tokens of that type in the gold
\* table; with 0 or more than 10 tokens for either word it raises
\* AssertionError, which leaves semantic_eval too, with no scores.
C16_TokensAsserted ==
    /\ (IsComputeDistanceCall /\ CalledPair["type"] = "librispeech") =>
          /\ ret.raised = "" => BothInRange
          /\ ~BothInRange => (ret.raised = "AssertionError" /\ ret.value = FloatNaN)
    /\ (IsSemanticEvalCall /\ CalledPair["type"] = "librispeech" /\ ~BothInRange) =>
          /\ ret.raised = "AssertionError"
          /\ ret.pairs_df = NoFrame
          /\ ret.correlation = None

\* a librispeech pair of a word with 11 tokens and a word with 10: the
\* assertion fails
C16_Witness ==
    /\ IsComputeDistanceCall
    /\ CalledPair["type"] = "librispeech"
    /\ Cardinality(TokensCalled("a")) = 11
    /\ Cardinality(TokensCalled("b")) = 10
    /\ ret.raised = "AssertionError"

\* C19: whenever compute_distance reaches the distance function, the metric
\* it hands over is the value of the configured metric, for a librispeech
\* pair and for a synthetic pair alike.
C19_SameMetricName ==
    (IsComputeDistanceCall /\ ret.metric # "") => ret.metric = call.self.metric.value

\* the poolings of the tokens a word has, of the type of the pair: the pool
\* has a line per gold line, in the order of the gold table
OwnPooled(w) ==
    LET own == SelectSeq([i \in DOMAIN CalledGold |-> i], LAMBDA i : i \in TokensCalled(w))
    IN  [k \in DOMAIN own |-> call.pool.rows[own[k]]["pooling"]]

\* C20: the poolings compute_distance takes for a pair are those of the
\* tokens of the type of the pair: a librispeech pair has the mean distance of
\* its own librispeech tokens, and a synthetic pair gets as far as the
\* distance function, whatever the file names of the other type.
C20_OwnTypePooling ==
    IsComputeDistanceCall =>
        /\ (CalledPair["type"] = "librispeech" /\ BothInRange) =>
              /\ ret.raised = ""
              /\ ret.value = matrix_mean(cdist(OwnPooled("a"), OwnPooled("b"),
                                               call.self.metric.value).value)
        /\ CalledPair["type"] = "synthetic" => ret.metric # ""

(***************************************************************************)
(* cmd/benchmarks.py: BenchmarkRunCMD.run, a step at a time.  `cli' is the *)
(* process of one invocation: its arguments, what it finds on the machine, *)
(* where it stands, what it did, and the exit code it ended with; `exits'  *)
(* keeps the cause and the code of the invocations that ended before it.   *)
(***************************************************************************)
\* the values of BenchmarkList
BenchmarkList == {"sLM21", "abx-LS"}

\* parser.parse_args: the arguments of an invocation
Arguments ==
    [name : BenchmarkList \cup {"sLM-21"},
     submission_dir : {"sub"},
     skip_validation : BOOLEAN,
     sets : {<<"all">>, <<>>, <<"dev">>, <<"dev", "all">>},
     tasks : {<<"all">>, <<>>, <<"lexical">>},
     quiet : BOOLEAN]

\* what an invocation finds: whether submission_dir is a directory, and
\* whether the submission in it is valid
Machines == [is_dir : BOOLEAN, valid : BOOLEAN]

\* a process at the first line of run
Started(argv, machine, exits) ==
    [pc |-> "bench", argv |-> argv, machine |-> machine,
     load_args |-> <<>>, loaded |-> FALSE,
     valid_evaluated |-> FALSE, errors_shown |-> FALSE,
     params_loaded |-> FALSE, benchmark_run |-> FALSE,
     cause |-> "", exit_code |-> 0, exits |-> exits]

\* sys.exit(code), and the end of a process whose run returned
sys_exit(process, cause, code) ==
    [process EXCEPT !.pc = "exited", !.cause = cause, !.exit_code = code]

\* `x in argv.sets'
In(x, list) == \E i \in DOMAIN list : list[i] = x

InitRunCommand ==
    /\ call = NoCall
    /\ ret = None
    /\ task = NoTask /\ sets = {} /\ inputs = NoInputs
    /\ written = <<>> /\ raised = "" /\ pc = "idle"
    /\ datasets = NoDatasets
    /\ workers = NoWorkers
    /\ \E argv \in Arguments, machine \in Machines : cli = Started(argv, machine, {})

\* bench = BenchmarkList(argv.name), or ValueError and sys.exit(1)
ResolveBenchmark ==
    /\ cli.pc = "bench"
    /\ cli' = IF cli.argv.name \in BenchmarkList
              THEN [cli EXCEPT !.pc = "sub_dir"]
              ELSE sys_exit(cli, "benchmark not found", 1)
    /\ UNCHANGED <<call, ret, task, sets, inputs, written, raised, pc, datasets, workers>>

\* if not sub_dir.is_dir(): sys.exit(1)
CheckSubmissionDir ==
    /\ cli.pc = "sub_dir"
    /\ cli' = IF cli.machine.is_dir
              THEN [cli EXCEPT !.pc = "load"]
              ELSE sys_exit(cli, "directory missing", 1)
    /\ UNCHANGED <<call, ret, task, sets, inputs, written, raised, pc, datasets, workers>>

\* load_args, then submission = bench.submission.load(path=sub_dir, **load_args)
LoadSubmission ==
    /\ cli.pc = "load"
    /\ LET with_sets == IF ~In("all", cli.argv.sets) /\ Len(cli.argv.sets) > 0
                        THEN [k \in {"sets"} |-> cli.argv.sets] ELSE <<>>
           \* the length tested is that of argv.sets
           with_tasks == IF ~In("all", cli.argv.tasks) /\ Len(cli.argv.sets) > 0
                         THEN [k \in {"tasks"} |-> cli.argv.tasks] ELSE <<>>
       IN  cli' = [cli EXCEPT !.pc = "valid", !.load_args = with_tasks @@ with_sets,
                              !.loaded = TRUE]
    /\ UNCHANGED <<call, ret, task, sets, inputs, written, raised, pc, datasets, workers>>

\* a variant of Validate that goes on to the parameters whatever the validity
Validate_ignored ==
    /\ cli.pc = "valid"
    /\ cli' = IF cli.argv.skip_validation
              THEN [cli EXCEPT !.pc = "params"]
              ELSE [cli EXCEPT !.pc = "params", !.valid_evaluated = TRUE]
    /\ UNCHANGED <<call, ret, task, sets, inputs, written, raised, pc, datasets, workers>>

\* if not argv.skip_validation: if not submission.valid: show the errors and
\* sys.exit(1)
Validate ==
    /\ cli.pc = "valid"
    /\ cli' = IF cli.argv.skip_validation
              THEN [cli EXCEPT !.pc = "params"]
              ELSE IF cli.machine.valid
              THEN [cli EXCEPT !.pc = "params", !.valid_evaluated = TRUE]
              ELSE sys_exit([cli EXCEPT !.valid_evaluated = TRUE, !.errors_shown = TRUE],
                            "submission invalid", 1)
    /\ UNCHANGED <<call, ret, task, sets, inputs, written, raised, pc, datasets, workers>>

\* submission.params_obj = submission.load_parameters(); params.quiet = argv.quiet
LoadParameters ==
    /\ cli.pc = "params"
    /\ cli' = [cli EXCEPT !.pc = "run", !.params_loaded = TRUE]
    /\ UNCHANGED <<call, ret, task, sets, inputs, written, raised, pc, datasets, workers>>

\* benchmark = bench.benchmark(); benchmark.run(submission); run returns and
\* the process ends
RunBenchmark ==
    /\ cli.pc = "run"
    /\ cli' = sys_exit([cli EXCEPT !.benchmark_run = TRUE], "success", 0)
    /\ UNCHANGED <<call, ret, task, sets, inputs, written, raised, pc, datasets, workers>>

\* the command is invoked again, with any arguments
Invoke ==
    /\ cli.pc = "exited"
    /\ Cardinality(cli.exits) + 1 < MaxRuns
    /\ \E argv \in Arguments, machine \in Machines :
          cli' = Started(argv, machine, cli.exits \cup {<<cli.cause, cli.exit_code>>})
    /\ UNCHANGED <<call, ret, task, sets, inputs, written, raised, pc, datasets, workers>>

NextRunCommand ==
    \/ ResolveBenchmark
    \/ CheckSubmissionDir
    \/ LoadSubmission
    \/ Validate
    \/ LoadParameters
    \/ RunBenchmark
    \/ Invoke

SpecRunCommand == InitRunCommand /\ [][NextRunCommand]_vars

(***************************************************************************)
(* Properties of the run command (checked under SpecRunCommand)            *)
(***************************************************************************)
\* the cause and the exit code of every invocation that has ended
Ended ==
    cli.exits \cup (IF cli.pc = "exited" THEN {<<cli.cause, cli.exit_code>>} ELSE {})

\* C12: the run command exits with 0 on success, and with three non-zero
\* codes, different from one another, when the benchmark is not found, when
\* the submission directory is missing and when the submission is invalid.
C12_DistinctExitCodes ==
    /\ \A e \in Ended : (e[1] = "success") <=> (e[2] = 0)
    /\ \A e, f \in Ended : e[1] # f[1] => e[2] # f[2]

\* C13: unless --skip-validation is given, the parameters are loaded and the
\* benchmark is run only after the validity was evaluated and found true; an
\* invalid submission has its errors shown and ends the process with a code
\* that is not 0, its parameters not loaded and its benchmark never run.  With
\* --skip-validation the validity is never evaluated and the benchmark runs.
C13_RunOnlyAfterValid ==
    /\ (~cli.argv.skip_validation
        /\ (cli.pc \in {"params", "run"} \/ cli.params_loaded \/ cli.benchmark_run))
          => (cli.valid_evaluated /\ cli.machine.valid)
    /\ (cli.pc = "exited" /\ cli.loaded /\ ~cli.argv.skip_validation /\ ~cli.machine.valid)
          => /\ cli.valid_evaluated /\ cli.errors_shown
             /\ cli.exit_code # 0
             /\ ~cli.params_loaded /\ ~cli.benchmark_run
    /\ cli.argv.skip_validation => ~cli.valid_evaluated
    /\ (cli.pc = "exited" /\ cli.loaded /\ cli.argv.skip_validation) => cli.benchmark_run

\* an invalid submission stopped the command, after a command that skipped
\* the validation ran its benchmark
C13_Witness ==
    /\ cli.pc = "exited" /\ cli.loaded
    /\ ~cli.argv.skip_validation /\ ~cli.machine.valid
    /\ cli.errors_shown /\ cli.exit_code = 1 /\ ~cli.benchmark_run
    /\ <<"success", 0>> \in cli.exits

\* a filter is handed to the loader, as the list given on the command line
Forwarded(k) == k \in DOMAIN cli.load_args /\ cli.load_args[k] = cli.argv[k]
\* the list of an option names some sets or tasks, and not all of them
Limits(list) == Len(list) > 0 /\ ~In("all", list)

\* C21: once the submission is loaded, the tasks filter was handed to the
\* loader iff --tasks is non-empty and without 'all', whatever --sets is, and
\* the sets filter iff --sets is non-empty and without 'all'.
C21_FiltersForwarded ==
    (cli.pc # "none" /\ cli.loaded) =>
        /\ ("tasks" \in DOMAIN cli.load_args) <=> Limits(cli.argv.tasks)
        /\ ("sets" \in DOMAIN cli.load_args) <=> Limits(cli.argv.sets)
        /\ \A k \in DOMAIN cli.load_args : Forwarded(k)

(***************************************************************************)
(* datasets/zrc_2015.py: the load classmethod of a dataset class, under    *)
(* functools.lru_cache.  `datasets' is the registry of the machine, the    *)
(* cache of each load, and what the loads did so far.                      *)
(***************************************************************************)
\* the dataset classes and their __dataset_name__
DatasetClasses == {"ZRC2015Buckeye", "ZRC2015NCHLT"}
dataset_name(cls) == IF cls = "ZRC2015Buckeye" THEN "zr2015-buckeye" ELSE "zr2015-nchlt-tso"

\* the ways to call load, and the load_index each of them passes
CallForms == {"load()", "load(True)", "load(False)", "load(load_index=True)",
              "load(load_index=False)"}
load_index(form) == form \in {"load()", "load(True)", "load(load_index=True)"}

\* functools._make_key: the positional arguments, then a mark and the keyword
\* arguments; a default that is not passed is not in the key
make_key(cls, form) ==
    CASE form = "load()" -> <<cls>>
      [] form = "load(True)" -> <<cls, "True">>
      [] form = "load(False)" -> <<cls, "False">>
      [] form = "load(load_index=True)" -> <<cls, "kwd_mark", "load_index", "True">>
      [] form = "load(load_index=False)" -> <<cls, "kwd_mark", "load_index", "False">>

\* a machine: each dataset is absent from the registry, listed but not
\* installed, or installed
Registries == [{dataset_name(c) : c \in DatasetClasses} -> {"absent", "listed", "installed"}]

\* a process that has not called load yet
NoLoads(registry) ==
    [registry |-> registry, cache |-> <<>>, calls |-> 0,
     lookups |-> [n \in DOMAIN registry |-> 0],
     index_loads |-> [n \in DOMAIN registry |-> 0],
     objects |-> [n \in DOMAIN registry |-> {}],
     returned |-> [n \in DOMAIN registry |-> {}]]

\* cls.load(...) in the process `state': the process after the call, and what
\* the call returned or raised.  `fresh' is whether DatasetsDir.load().get
\* builds a new object or hands out the one it built before.
Dataset_load(state, cls, form, fresh) ==
    LET name == dataset_name(cls)
        key == make_key(cls, form)
        called == [state EXCEPT !.calls = @ + 1]
        looked == [called EXCEPT !.lookups[name] = @ + 1]
        object == IF fresh \/ state.objects[name] = {}
                  THEN <<name, state.lookups[name] + 1>>
                  ELSE CHOOSE o \in state.objects[name] : TRUE
    IN  IF key \in DOMAIN state.cache
        THEN \* a hit: the body is not run
             [state |-> [called EXCEPT !.returned[name] = @ \cup {state.cache[key]}],
              raised |-> "", object |-> state.cache[key]]
        ELSE IF state.registry[name] = "absent"
        THEN [state |-> looked, raised |-> "DatasetNotFoundError", object |-> <<>>]
        ELSE IF state.registry[name] = "listed"
        THEN [state |-> looked, raised |-> "DatasetNotInstalledError", object |-> <<>>]
        ELSE [state |-> [looked EXCEPT
                            !.cache = (key :> object) @@ @,
                            !.objects[name] = @ \cup {object},
                            !.returned[name] = @ \cup {object},
                            !.index_loads[name] = IF load_index(form) THEN @ + 1 ELSE @],
              raised |-> "", object |-> object]

InitDatasets ==
    /\ call = NoCall
    /\ ret = None
    /\ task = NoTask /\ sets = {} /\ inputs = NoInputs
    /\ written = <<>> /\ raised = "" /\ pc = "idle"
    /\ cli = NoCommand
    /\ workers = NoWorkers
    /\ \E registry \in Registries : datasets = NoLoads(registry)

\* a call of load on a dataset class
LoadDataset ==
    /\ datasets.calls < MaxLoads
    /\ \E cls \in DatasetClasses, form \in CallForms, fresh \in BOOLEAN :
          LET done(loaded) ==
                  /\ datasets' = loaded.state
                  /\ call' = [fn |-> "load", cls |-> cls, form |-> form]
                  /\ ret' = [raised |-> loaded.raised, object |-> loaded.object]
          IN  done(Dataset_load(datasets, cls, form, fresh))
    /\ UNCHANGED <<task, sets, inputs, written, raised, pc, cli, workers>>

NextDatasets ==
    \/ LoadDataset

SpecDatasets == InitDatasets /\ [][NextDatasets]_vars

(***************************************************************************)
(* Properties of the datasets (checked under SpecDatasets)                 *)
(***************************************************************************)
\* C14: for any sequence of load calls on the class of an installed dataset,
\* whatever the load_index argument, the registry is looked up and the index
\* loaded at most once for the dataset's name and all the calls return the
\* same object; an index is loaded only for a dataset that reports installed.
C14_ResolvedOncePerName ==
    \A n \in DOMAIN datasets.registry :
        /\ datasets.registry[n] = "installed" =>
              /\ datasets.lookups[n] <= 1
              /\ datasets.index_loads[n] <= 1
              /\ Cardinality(datasets.returned[n]) <= 1
        /\ datasets.index_loads[n] > 0 => datasets.registry[n] = "installed"

(***************************************************************************)
(* semantic.py: the workers of semantic_eval.  joblib.Parallel runs        *)
(* compute on every gold row; `workers' holds the rows done, in the order  *)
(* they were done, and the list Parallel gives back.                       *)
(***************************************************************************)
\* a variant of Parallel_results: the results in the order the workers ended
Parallel_results_as_completed(results, completed) ==
    [k \in DOMAIN completed |-> results[completed[k]]]

\* the list joblib.Parallel returns: the results in the order of the tasks
\* handed in
Parallel_results(results, completed) ==
    [i \in 1..Len(completed) |-> results[i]]

\* the files of a submission, the first of them unreadable
Unreadable(item) ==
    FileListItem([i \in DOMAIN item.files_list |->
        IF i = 1 THEN [item.files_list[i] EXCEPT !.array.ok = FALSE]
        ELSE item.files_list[i]])

\* the pairs of a pairs file
WorkerPairs == {<<PairOf("librispeech")>>, <<PairOf("librispeech"), PairOf("synthetic")>>}

InitPoolWorkers ==
    /\ call = NoCall
    /\ ret = None
    /\ IdleEngines

\* semantic_eval up to the call of joblib.Parallel: the tables are loaded and
\* a task per gold row is handed in
StartWorkers ==
    /\ call = NoCall
    /\ workers = NoWorkers
    /\ \E n_a \in 0..MaxWorkerTokens, n_b \in 0..MaxWorkerTokens, shared \in BOOLEAN,
          broken \in BOOLEAN, lines \in WorkerPairs, n_jobs \in {1, 2} :
          LET self == [BothTypes("euclidean") EXCEPT !.n_jobs = n_jobs]
              content == TokenGold(n_a, n_b, shared)
              gold == FileItem("csv", "semantic/dev/gold.csv", content)
              pairs == FileItem("csv", "semantic/dev/pairs.csv",
                          FileContent(<<"type", "dataset", "word_1", "word_2",
                                        "similarity", "relatedness">>, lines))
              synthetic == TokenFiles(content, "synthetic")
              file_index == build_file_index(self,
                                IF broken THEN Unreadable(synthetic) ELSE synthetic,
                                TokenFiles(content, "librispeech"))
              start(tables) ==
                  /\ tables.raised = ""
                  /\ workers' = [pc |-> "running", gold_df |-> tables.gold_df,
                                 pairs_df |-> tables.pairs_df,
                                 results |-> <<>>, completed |-> <<>>, pool |-> NoFrame]
          IN  /\ call' = [fn |-> "semantic_eval", self |-> self, file_index |-> file_index,
                          gold |-> gold, pairs |-> pairs]
              /\ start(semantic_tables(self, gold, pairs))
    /\ UNCHANGED <<ret, task, sets, inputs, written, raised, pc, cli, datasets>>

\* the rows no worker has ended yet
Pending == DOMAIN workers.gold_df.rows \ DOMAIN workers.results
\* an exception of a worker, which leaves Parallel
WorkerRaised == \E i \in DOMAIN workers.results : workers.results[i].raised # ""

\* a worker ends compute on its row; with n_jobs = 1 the rows are done in
\* order, with more workers in any order
WorkerEnds ==
    /\ workers.pc = "running"
    /\ ~WorkerRaised
    /\ \E i \in Pending :
          /\ call.self.n_jobs = 1 => \A j \in Pending : i <= j
          /\ workers' = [workers EXCEPT
                 !.results = (i :> compute(call.self, call.file_index, workers.gold_df,
                                           workers.gold_df.rows[i])) @@ @,
                 !.completed = Append(@, i)]
    /\ UNCHANGED <<call, ret, task, sets, inputs, written, raised, pc, cli, datasets>>

\* Parallel returns, or raises what a worker raised; semantic_eval goes on to
\* its end
CollectWorkers ==
    /\ workers.pc = "running"
    /\ \/ (Pending = {} /\ ~WorkerRaised)
       \/ WorkerRaised
    /\ IF WorkerRaised
       THEN /\ workers' = [workers EXCEPT !.pc = "done"]
            /\ ret' = semantic_failed("Exception")
       ELSE LET end(res) ==
                    /\ workers' = [workers EXCEPT !.pc = "done", !.pool = pool_frame(res)]
                    /\ ret' = pool_scores(call.self, workers.gold_df, workers.pairs_df, res)
            IN  end(Parallel_results(workers.results, workers.completed))
    /\ UNCHANGED <<call, task, sets, inputs, written, raised, pc, cli, datasets>>

NextPoolWorkers ==
    \/ StartWorkers
    \/ WorkerEnds
    \/ CollectWorkers

SpecPoolWorkers == InitPoolWorkers /\ [][NextPoolWorkers]_vars

(***************************************************************************)
(* Properties of the workers (checked under SpecPoolWorkers)               *)
(***************************************************************************)
\* what pooling the file of gold row i gives: of the file of the type and the
\* name of the row, None when the submission has no such file
OwnLine(i) ==
    LET row == workers.gold_df.rows[i]
        held == /\ row["type"] \in DOMAIN call.file_index
                /\ row["filename"] \in DOMAIN call.file_index[row["type"]]
    IN  [filename |-> row["filename"], type |-> row["type"],
         pooling |-> IF held
                     THEN SemanticPooling_fn(call.self.pooling,
                              call.file_index[row["type"]][row["filename"]].array.frames)
                     ELSE NoPooling]

\* C17: in whatever order the workers of semantic_eval end, the result of a
\* gold row is the pooling of that row's own file; the pool has the lines of
\* the gold rows in their order, and the pool, the scores and the exception
\* are those of running the workers one after the other.
C17_PoolIndependentOfCompletion ==
    workers.pc \in {"running", "done"} =>
        /\ \A i \in DOMAIN workers.results :
              workers.results[i].raised = "" => workers.results[i].row = OwnLine(i)
        /\ workers.pc = "done" =>
              /\ ret = semantic_eval(call.self, call.file_index, call.gold, call.pairs)
              /\ ~WorkerRaised =>
                    /\ Len(workers.pool.rows) = Len(workers.gold_df.rows)
                    /\ \A i \in DOMAIN workers.pool.rows :
                          /\ workers.pool.rows[i][RangeIndex] = i - 1
                          /\ \A c \in {"filename", "type", "pooling"} :
                                workers.pool.rows[i][c] = OwnLine(i)[c]

\* four workers that ended out of order, the last row first, and the scores
\* computed
C17_Witness ==
    /\ workers.pc = "done"
    /\ Len(workers.completed) = 4
    /\ workers.completed[1] = 4
    /\ workers.completed[4] = 1
    /\ ret.raised = ""
    /\ Len(ret.pairs_df.rows) = 1

====
